---- MODULE Spec2Model ----
(***************************************************************************)
(* Model of the xanadu ingestion pipeline: the ghost-webhook ingest        *)
(* handler, the process-article (reprocess) handler, the update-article    *)
(* edit handler, and the market resolver and article analyzers they use.   *)
(*                                                                         *)
(* Conventions                                                             *)
(*  - A JavaScript value is a tagged record (Undefined, Null, Bool, Num,   *)
(*    Str, Obj).  A string is a sequence of symbols: single characters     *)
(*    where the code inspects characters (locations, market names), and    *)
(*    opaque chunks elsewhere (titles, URLs).                              *)
(*  - A number n is [n |-> k, half |-> b], standing for k, or k + 1/2 when *)
(*    b holds, so that non-integer service answers are representable.      *)
(*  - Coordinates are kept as their decimal literals; distances are in     *)
(*    millionths of a mile.                                                *)
(***************************************************************************)
EXTENDS Integers, Sequences, FiniteSets, TLC

VARIABLES
    first_party_articles,   \* rows of table first_party_articles
    article_edits,          \* rows of table article_edits (the ledger), in insertion order
    article_markets,        \* rows of table article_markets (additional markets)
    weather,                \* rows of table weather (one snapshot per city)
    nextId,                 \* next serial id of first_party_articles
    now,                    \* logical clock: number of requests served
    response,               \* what the last request did and returned
    arg,                    \* input of the function applied (function specifications)
    ret                     \* its result

vars == <<first_party_articles, article_edits, article_markets, weather, nextId, now,
          response, arg, ret>>

storeVars == <<first_party_articles, article_edits, article_markets, weather, nextId,
               now, response>>

-----------------------------------------------------------------------------
(* JavaScript values *)

Undefined == [t |-> "undefined"]
Null == [t |-> "null"]
Bool(b) == [t |-> "boolean", b |-> b]
Num(k) == [t |-> "number", n |-> k, half |-> FALSE]
NumHalf(k) == [t |-> "number", n |-> k, half |-> TRUE]
NaN == [t |-> "number", n |-> 0, half |-> FALSE, nan |-> TRUE]
Str(s) == [t |-> "string", s |-> s]

IsNaN(v) == v.t = "number" /\ "nan" \in DOMAIN v
IsNum(v) == v.t = "number" /\ ~IsNaN(v)
IsInteger(v) == IsNum(v) /\ ~v.half

\* ToBoolean: the test made by ||, && and ?:
truthy(v) ==
    CASE v.t = "undefined" -> FALSE
      [] v.t = "null" -> FALSE
      [] v.t = "boolean" -> v.b
      [] v.t = "number" -> ~IsNaN(v) /\ (v.n # 0 \/ v.half)
      [] v.t = "string" -> v.s # <<>>
      [] OTHER -> TRUE

\* a || b
or(a, b) == IF truthy(a) THEN a ELSE b

\* a === b
strictEquals(a, b) == a = b /\ ~IsNaN(a)

-----------------------------------------------------------------------------
(* Strings *)

UpperAlpha == <<"A", "B", "C", "D", "E", "F", "G", "H", "I", "J", "K", "L", "M",
                "N", "O", "P", "Q", "R", "S", "T", "U", "V", "W", "X", "Y", "Z">>
LowerAlpha == <<"a", "b", "c", "d", "e", "f", "g", "h", "i", "j", "k", "l", "m",
                "n", "o", "p", "q", "r", "s", "t", "u", "v", "w", "x", "y", "z">>

LowerOf == [c \in {UpperAlpha[i] : i \in DOMAIN UpperAlpha} |->
               LowerAlpha[CHOOSE i \in DOMAIN UpperAlpha : UpperAlpha[i] = c]]
UpperOf == [c \in {LowerAlpha[i] : i \in DOMAIN LowerAlpha} |->
               UpperAlpha[CHOOSE i \in DOMAIN LowerAlpha : LowerAlpha[i] = c]]

lowerChar(c) == IF c \in DOMAIN LowerOf THEN LowerOf[c] ELSE c

upperChar(c) == IF c \in DOMAIN UpperOf THEN UpperOf[c] ELSE c

\* String.prototype.toLowerCase
toLowerCase(s) == [i \in 1..Len(s) |-> lowerChar(s[i])]

toUpperCase(s) == [i \in 1..Len(s) |-> upperChar(s[i])]

\* String.prototype.includes
includes(s, sub) ==
    \E i \in 0..(Len(s) - Len(sub)) : SubSeq(s, i + 1, i + Len(sub)) = sub

Digits == <<"0", "1", "2", "3", "4", "5", "6", "7", "8", "9">>

RECURSIVE natToString(_)
natToString(k) ==
    IF k < 10 THEN <<Digits[k + 1]>>
    ELSE natToString(k \div 10) \o <<Digits[(k % 10) + 1]>>

\* Number.prototype.toString, Boolean.prototype.toString, String.prototype.toString
toString(v) ==
    CASE v.t = "string" -> v.s
      [] v.t = "boolean" -> IF v.b THEN <<"t", "r", "u", "e">> ELSE <<"f", "a", "l", "s", "e">>
      [] v.t = "number" ->
            IF IsNaN(v) THEN <<"N", "a", "N">>
            ELSE natToString(v.n) \o (IF v.half THEN <<".", "5">> ELSE <<>>)

-----------------------------------------------------------------------------
(* Market table and large-city shortlist *)

MARKETS == <<
    [name |-> <<"A", "r", "k", " ", "V", "a", "l", "l", "e", "y">>,
     lat |-> "37.0619", lon |-> "-97.0386"],
    [name |-> <<"P", "i", "t", "t", "s", "b", "u", "r", "g">>,
     lat |-> "37.4109", lon |-> "-94.7049"],
    [name |-> <<"L", "i", "b", "e", "r", "a", "l">>,
     lat |-> "37.0431", lon |-> "-100.9212"],
    [name |-> <<"G", "a", "r", "d", "e", "n", " ", "C", "i", "t", "y">>,
     lat |-> "37.9717", lon |-> "-100.8727"],
    [name |-> <<"D", "o", "d", "g", "e", " ", "C", "i", "t", "y">>,
     lat |-> "37.7528", lon |-> "-100.0171"],
    [name |-> <<"G", "r", "e", "a", "t", " ", "B", "e", "n", "d">>,
     lat |-> "38.3645", lon |-> "-98.7648"],
    [name |-> <<"M", "c", "P", "h", "e", "r", "s", "o", "n">>,
     lat |-> "38.3706", lon |-> "-97.6642"],
    [name |-> <<"N", "e", "w", "t", "o", "n">>,
     lat |-> "38.0467", lon |-> "-97.3453"],
    [name |-> <<"S", "a", "l", "i", "n", "a">>,
     lat |-> "38.8403", lon |-> "-97.6114"],
    [name |-> <<"H", "u", "t", "c", "h", "i", "n", "s", "o", "n">>,
     lat |-> "38.0608", lon |-> "-97.9298"],
    [name |-> <<"A", "b", "i", "l", "e", "n", "e">>,
     lat |-> "38.9172", lon |-> "-97.2139"],
    [name |-> <<"J", "u", "n", "c", "t", "i", "o", "n", " ", "C", "i", "t", "y">>,
     lat |-> "39.0286", lon |-> "-96.8314"],
    [name |-> <<"M", "a", "n", "h", "a", "t", "t", "a", "n">>,
     lat |-> "39.1836", lon |-> "-96.5717"],
    [name |-> <<"T", "o", "p", "e", "k", "a">>,
     lat |-> "39.0473", lon |-> "-95.6752"],
    [name |-> <<"L", "a", "w", "r", "e", "n", "c", "e">>,
     lat |-> "38.9717", lon |-> "-95.2353"],
    [name |-> <<"H", "a", "y", "s">>,
     lat |-> "38.8792", lon |-> "-99.3268"],
    [name |-> <<"E", "m", "p", "o", "r", "i", "a">>,
     lat |-> "38.4039", lon |-> "-96.1817"] >>

\* The reprocess handler's copy of the table: the same rows without Newton.
MARKETS_process == SelectSeq(MARKETS, LAMBDA m : m.name # <<"N", "e", "w", "t", "o", "n">>)

AT_LARGE_CITIES == <<
    <<"k", "a", "n", "s", "a", "s", " ", "c", "i", "t", "y">>,
    <<"w", "i", "c", "h", "i", "t", "a">>,
    <<"o", "v", "e", "r", "l", "a", "n", "d", " ", "p", "a", "r", "k">>,
    <<"o", "l", "a", "t", "h", "e">> >>

AtLarge == <<"A", "t", " ", "L", "a", "r", "g", "e">>

Topeka == <<"T", "o", "p", "e", "k", "a">>
Newton == <<"N", "e", "w", "t", "o", "n">>
Kansas == <<"K", "a", "n", "s", "a", "s">>
Smallville == <<"S", "m", "a", "l", "l", "v", "i", "l", "l", "e">>
Wichita == <<"W", "i", "c", "h", "i", "t", "a">>

-----------------------------------------------------------------------------
(* Distances.  A distance is a number of millionths of a mile, NaN or      *)
(* Infinity.                                                               *)

Dist(v) == [k |-> "num", v |-> v]
DistNaN == [k |-> "nan", v |-> 0]
Infinity == [k |-> "inf", v |-> 0]

\* a < b on doubles
numLt(a, b) ==
    CASE a.k = "nan" \/ b.k = "nan" -> FALSE
      [] a.k = "inf" -> FALSE
      [] b.k = "inf" -> TRUE
      [] OTHER -> a.v < b.v

\* a <= b on doubles
numLe(a, b) ==
    CASE a.k = "nan" \/ b.k = "nan" -> FALSE
      [] b.k = "inf" -> TRUE
      [] a.k = "inf" -> FALSE
      [] OTHER -> a.v <= b.v

Miles(m) == Dist(m * 1000 * 1000)

\* The coordinates the geocoder answers with in this model.
ProbeAnchor == <<"39.0473", "-95.6752">>                        \* the Topeka anchor itself
ProbeNear == <<"39.1341", "-95.6752">>                          \* 6 miles north of it
ProbeExact == <<"39.481409278258404", "-95.66593228233357">>    \* exactly 30 miles from it
ProbeBeyond == <<"39.4815", "-95.66593228233357">>              \* 30.006 miles from it
ProbeFar == <<"39.3508", "-101.7102">>                          \* 105 miles from Garden City
ProbeNewton == <<"38.15", "-97.45">>                            \* 9 from Newton, 19 from McPherson
ProbeEmporia == <<"38.45", "-96.3">>                            \* 7 miles from Emporia
ProbeTie == <<"39.15073514576454", "-96.7459">>     \* 9.604530164333895 miles from both
                                                    \* Junction City and Manhattan

Probes == {ProbeAnchor, ProbeNear, ProbeExact, ProbeBeyond, ProbeFar, ProbeNewton,
           ProbeEmporia, ProbeTie}

\* haversineDistance of the source (R = 3959 miles), evaluated at every probe
\* against every anchor of MARKETS, in MARKETS order.
HaversineTable ==
    (ProbeAnchor :> <<155952884, 124733178, 317213193, 290638610, 251525166, 173137034,
                      116991501, 113688843, 105030709, 139595566, 83133671, 62066397,
                      48976251, 0, 24189722, 196518967, 52172067>>)
 @@ (ProbeNear :> <<161233379, 130181782, 319722706, 292064918, 253587229, 174769511,
                    119456234, 117390492, 105951403, 142556771, 83944156, 62441773,
                    48154231, 5997670, 26135993, 196844435, 57360838>>)
 @@ (ProbeExact :> <<183008911, 152224079, 331093609, 299376081, 263491483, 183581070,
                     132015450, 134212199, 113251391, 156545998, 91598087, 69766519,
                     52601135, 30000000, 42091909, 200433593, 79445225>>)
 @@ (ProbeBeyond :> <<183014618, 152229959, 331096641, 299378095, 263494189, 183583608,
                      132019038, 134216790, 113253781, 156549867, 91600706, 69769294,
                      52603559, 30006268, 42097146, 200434770, 79451094>>)
 @@ (ProbeFar :> <<298854108, 402291391, 165110145, 105462091, 143390614, 172502885,
                   227961209, 252008936, 222595438, 222456434, 242817600, 262196730,
                   275092299, 323778287, 347813542, 131862822, 304446617>>)
 @@ (ProbeNewton :> <<78485174, 158368223, 204836652, 186606445, 142532407, 72861231,
                      19167884, 9130207, 48490096, 26805531, 54526000, 69294783,
                      85707993, 114145619, 132443116, 113287789, 70997895>>)
 @@ (ProbeEmporia :> <<104055048, 112747736, 270517355, 250427417, 207760035, 133585493,
                       74065499, 63198031, 75735928, 92429255, 58923726, 49179689,
                       52758276, 53263567, 67785216, 165966205, 7152223>>)
 @@ (ProbeTie :> <<145207896, 163416115, 269688786, 237361249, 201633743, 121590153,
                   73169302, 82868722, 51189982, 98783134, 29855565, 9604530,
                   9604530, 57857655, 81985021, 139821730, 59888732>>)

NumericLiterals == UNION {{p[1], p[2]} : p \in Probes}

\* parseFloat on the strings the geocoder answers with
parseFloat(s) == IF s \in NumericLiterals THEN s ELSE "NaN"

\* the position in MARKETS of the anchor at a coordinate
AnchorIndex ==
    [c \in {<<MARKETS[i].lat, MARKETS[i].lon>> : i \in DOMAIN MARKETS} |->
        CHOOSE i \in DOMAIN MARKETS : <<MARKETS[i].lat, MARKETS[i].lon>> = c]

haversineDistance(lat1, lon1, lat2, lon2) ==
    IF lat1 = "NaN" \/ lon1 = "NaN" THEN DistNaN
    ELSE Dist(HaversineTable[<<lat1, lon1>>][AnchorIndex[<<lat2, lon2>>]])

-----------------------------------------------------------------------------
(* Geocoding.  geo is the geocoding service's behaviour for the request.   *)

GeoReject == [kind |-> "reject", data |-> <<>>]             \* fetch throws
GeoStatus == [kind |-> "status", data |-> <<>>]             \* response.ok is false
GeoInvalid == [kind |-> "invalid", data |-> <<>>]           \* response.json() throws
GeoNull == [kind |-> "null", data |-> <<>>]                 \* body is JSON null
GeoData(d) == [kind |-> "json", data |-> d]                 \* body is the list d

GeoHit(p) == GeoData(<< [lat |-> p[1], lon |-> p[2]] >>)
GeoUnparsable == GeoData(<< [lat |-> "n/a", lon |-> "-95.6752"] >>)

GeoOutcomes ==
    {GeoReject, GeoStatus, GeoInvalid, GeoNull, GeoData(<<>>), GeoUnparsable}
    \cup {GeoHit(p) : p \in Probes}

NoCoords == [found |-> FALSE, lat |-> "NaN", lon |-> "NaN"]

geocodeLocation(location, geo) ==
    CASE geo.kind = "reject" -> NoCoords
      [] geo.kind = "status" -> NoCoords
      [] geo.kind = "invalid" -> NoCoords
      [] geo.kind = "null" -> NoCoords
      [] geo.kind = "json" ->
            IF Len(geo.data) > 0
            THEN [found |-> TRUE,
                  lat |-> parseFloat(geo.data[1].lat),
                  lon |-> parseFloat(geo.data[1].lon)]
            ELSE NoCoords

-----------------------------------------------------------------------------
(* getMarket *)

\* Mutant: the shortlist is compared for equality instead of containment.
isAtLargeCity_equal(locationLower) ==
    \E i \in DOMAIN AT_LARGE_CITIES : locationLower = AT_LARGE_CITIES[i]

isAtLargeCity(locationLower) ==
    \E i \in DOMAIN AT_LARGE_CITIES : includes(locationLower, AT_LARGE_CITIES[i])

\* marketName.toLowerCase() of every market name, computed once
LowerName == [n \in {MARKETS[i].name : i \in DOMAIN MARKETS} |-> toLowerCase(n)]

\* Mutant: the market name is not lower-cased before the comparison.
directMatches_caseSensitive(markets, locationLower) ==
    {i \in DOMAIN markets : markets[i].name = locationLower}

\* indexes of the markets whose name matches, in table order
directMatches(markets, locationLower) ==
    {i \in DOMAIN markets : LowerName[markets[i].name] = locationLower}

\* Mutant: an anchor at the same distance as the nearest so far replaces it.
RECURSIVE nearestFrom_lastWins(_, _, _, _)
nearestFrom_lastWins(markets, coords, i, best) ==
    IF i > Len(markets) THEN best
    ELSE LET distance == haversineDistance(coords.lat, coords.lon,
                                           markets[i].lat, markets[i].lon)
         IN  nearestFrom_lastWins(markets, coords, i + 1,
                 IF numLe(distance, best.nearestDistance)
                 THEN [nearestMarket |-> markets[i].name, nearestDistance |-> distance]
                 ELSE best)

\* the nearest loop, from the i-th market on
RECURSIVE nearestFrom(_, _, _, _)
nearestFrom(markets, coords, i, best) ==
    IF i > Len(markets) THEN best
    ELSE LET distance == haversineDistance(coords.lat, coords.lon,
                                           markets[i].lat, markets[i].lon)
         IN  nearestFrom(markets, coords, i + 1,
                 IF numLt(distance, best.nearestDistance)
                 THEN [nearestMarket |-> markets[i].name, nearestDistance |-> distance]
                 ELSE best)

\* Mutant: the threshold itself is excluded.
withinThreshold_strict(nearestDistance) == numLt(nearestDistance, Miles(30))

withinThreshold(nearestDistance) == numLe(nearestDistance, Miles(30))

MarketResult(m, calls) == [raised |-> FALSE, market |-> m, geocodeCalls |-> calls]
MarketRaised == [raised |-> TRUE, market |-> <<>>, geocodeCalls |-> 0]

getMarketIn(markets, location, geo) ==
    IF location.t # "string" THEN MarketRaised      \* location.toLowerCase is not a function
    ELSE
    LET locationLower == toLowerCase(location.s) IN
    IF isAtLargeCity(locationLower) THEN MarketResult(AtLarge, 0)
    ELSE
    LET matches == directMatches(markets, locationLower) IN
    IF matches # {}
    THEN LET i == CHOOSE i \in matches : \A j \in matches : i <= j
         IN  MarketResult(markets[i].name, 0)
    ELSE
    LET coords == geocodeLocation(location, geo) IN
    IF ~coords.found THEN MarketResult(AtLarge, 1)
    ELSE LET best == nearestFrom(markets, coords, 1,
                         [nearestMarket |-> AtLarge, nearestDistance |-> Infinity])
         IN  MarketResult(IF withinThreshold(best.nearestDistance)
                          THEN best.nearestMarket ELSE AtLarge, 1)

getMarket(location, geo) == getMarketIn(MARKETS, location, geo)

\* getMarket of the process-article function, over its own MARKETS
getMarket_process(location, geo) == getMarketIn(MARKETS_process, location, geo)

-----------------------------------------------------------------------------
(* Specification of getMarket as a function of its inputs *)

Prefixes == {<<>>, <<"N", "o", "r", "t", "h", " ">>}
Suffixes == {<<>>, <<" ", "n", "e", "a", "r", " ">> \o Wichita,
             <<" ", "n", "e", "a", "r", " ">> \o Topeka}

BaseWords ==
    {MARKETS[i].name : i \in DOMAIN MARKETS}
    \cup {AT_LARGE_CITIES[i] : i \in DOMAIN AT_LARGE_CITIES}
    \cup {Smallville, Kansas, <<>>, <<" ">>}

LocationStrings ==
    {p \o w \o s : p \in Prefixes, s \in Suffixes,
                   w \in UNION {{b, toLowerCase(b), toUpperCase(b)} : b \in BaseWords}}

LocationInputs == {Str(s) : s \in LocationStrings} \cup {Num(5), Bool(TRUE)}

StoreIdle ==
    /\ first_party_articles = {}
    /\ article_edits = <<>>
    /\ article_markets = <<>>
    /\ weather = {}
    /\ nextId = 1
    /\ now = 0
    /\ response = [op |-> "none"]

InitResolve ==
    /\ StoreIdle
    /\ arg \in [location : LocationInputs, geo : GeoOutcomes]
    /\ ret = [pc |-> "input"]

Resolve ==
    /\ ret.pc = "input"
    /\ ret' = [pc |-> "done"] @@ getMarket(arg.location, arg.geo)
    /\ UNCHANGED <<arg, storeVars>>

NextResolve == Resolve

SpecResolve == InitResolve /\ [][NextResolve]_vars

Resolved == ret.pc = "done" /\ "market" \in DOMAIN ret

\* C8: a location that equals a market's canonical name ignoring case resolves
\* to that market, and no geocoding call is made.
C8_ExactNameNoGeocode ==
    (Resolved /\ arg.location.t = "string") =>
        \A i \in DOMAIN MARKETS :
            toLowerCase(MARKETS[i].name) = toLowerCase(arg.location.s) =>
                /\ ~ret.raised
                /\ ret.market = MARKETS[i].name
                /\ ret.geocodeCalls = 0

C8_Witness ==
    /\ Resolved
    /\ arg.location = Str(toUpperCase(Topeka))
    /\ arg.geo = GeoHit(ProbeFar)
    /\ ret.market = Topeka
    /\ ret.geocodeCalls = 0

\* C9: a location that contains a large-city shortlist entry ignoring case
\* resolves to "At Large" without a geocoding call, even when it also
\* contains a market name.
C9_ShortlistAtLarge ==
    (Resolved /\ arg.location.t = "string") =>
        \A i \in DOMAIN AT_LARGE_CITIES :
            includes(toLowerCase(arg.location.s), AT_LARGE_CITIES[i]) =>
                /\ ~ret.raised
                /\ ret.market = AtLarge
                /\ ret.geocodeCalls = 0

C9_Witness ==
    /\ Resolved
    /\ arg.location = Str(Topeka \o <<" ", "n", "e", "a", "r", " ">> \o Wichita)
    /\ arg.geo = GeoHit(ProbeAnchor)
    /\ ret.market = AtLarge
    /\ ret.geocodeCalls = 0

\* The geocoding step was reached and the geocoder returned a coordinate.
GeocodedCoordinate ==
    /\ Resolved
    /\ ~ret.raised
    /\ ret.geocodeCalls = 1
    /\ arg.geo.kind = "json"
    /\ Len(arg.geo.data) > 0
    /\ arg.geo.data[1].lat \in NumericLiterals
    /\ arg.geo.data[1].lon \in NumericLiterals

\* distance, in millionths of a mile, from the geocoded coordinate to anchor i
AnchorDistance(i) ==
    haversineDistance(arg.geo.data[1].lat, arg.geo.data[1].lon,
                      MARKETS[i].lat, MARKETS[i].lon).v

\* C10: with a geocoded coordinate, the nearest anchor's market is returned
\* when its distance is at most 30 miles (30 included), and "At Large" when
\* every anchor is farther than 30 miles.
C10_NearestWithinThreshold ==
    GeocodedCoordinate =>
        /\ (\E i \in DOMAIN MARKETS : AnchorDistance(i) <= 30 * 1000 * 1000)
              => \E i \in DOMAIN MARKETS :
                    /\ \A j \in DOMAIN MARKETS : AnchorDistance(i) <= AnchorDistance(j)
                    /\ ret.market = MARKETS[i].name
        /\ (\A i \in DOMAIN MARKETS : AnchorDistance(i) > 30 * 1000 * 1000)
              => ret.market = AtLarge

C10_Witness ==
    /\ GeocodedCoordinate
    /\ arg.geo = GeoHit(ProbeExact)
    /\ AnchorDistance(14) = 30 * 1000 * 1000
    /\ ret.market = Topeka

\* C11: for every location the analyzers let through and every geocoder
\* outcome, resolve does not raise and returns a market name or "At Large";
\* a geocoding failure or an empty result gives "At Large".
C11_ResolveNeverRaises ==
    (ret.pc = "done" /\ "market" \in DOMAIN ret /\ truthy(arg.location)) =>
        /\ ~ret.raised
        /\ ret.market \in {MARKETS[i].name : i \in DOMAIN MARKETS} \cup {AtLarge}
        /\ (ret.geocodeCalls = 1 /\ ~geocodeLocation(arg.location, arg.geo).found)
              => ret.market = AtLarge

-----------------------------------------------------------------------------
(* Parsed JSON and numeric coercion *)

Obj(f) == [t |-> "object", f |-> f]
Arr(a) == [t |-> "array", a |-> a]
Invalid == [t |-> "invalid"]            \* text that JSON.parse rejects

\* o.name, for o other than null and undefined
get(o, name) == IF o.t = "object" /\ name \in DOMAIN o.f THEN o.f[name] ELSE Undefined

\* reading a property of o throws a TypeError
throwsOnRead(o) == o.t \in {"null", "undefined"}

isDigit(c) == \E i \in DOMAIN Digits : Digits[i] = c
digitValue(c) == (CHOOSE i \in DOMAIN Digits : Digits[i] = c) - 1

RECURSIVE digitsToNat(_)
digitsToNat(s) ==
    IF s = <<>> THEN 0
    ELSE 10 * digitsToNat(SubSeq(s, 1, Len(s) - 1)) + digitValue(s[Len(s)])

\* StringToNumber, for the numerals of this model: digits, optionally with .5
stringToNumber(s) ==
    IF \A i \in DOMAIN s : isDigit(s[i]) THEN Num(digitsToNat(s))
    ELSE IF Len(s) >= 3 /\ SubSeq(s, Len(s) - 1, Len(s)) = <<".", "5">>
            /\ \A i \in 1..(Len(s) - 2) : isDigit(s[i])
         THEN NumHalf(digitsToNat(SubSeq(s, 1, Len(s) - 2)))
         ELSE NaN

\* ToNumber; an array converts through its join(","), an object to NaN
toNumber(v) ==
    CASE v.t = "number" -> v
      [] v.t = "undefined" -> NaN
      [] v.t = "null" -> Num(0)
      [] v.t = "boolean" -> IF v.b THEN Num(1) ELSE Num(0)
      [] v.t = "string" -> stringToNumber(v.s)
      [] v.t = "array" ->
            IF v.a = <<>> THEN Num(0)
            ELSE IF Len(v.a) > 1 THEN NaN
            ELSE CASE v.a[1].t \in {"null", "undefined"} -> Num(0)
                   [] v.a[1].t = "number" -> v.a[1]
                   [] v.a[1].t = "string" -> stringToNumber(v.a[1].s)
                   [] OTHER -> NaN
      [] OTHER -> NaN

\* v >= k and v <= k for an integer literal k
geInt(v, k) == LET x == toNumber(v) IN ~IsNaN(x) /\ x.n >= k
leInt(v, k) == LET x == toNumber(v) IN ~IsNaN(x) /\ (x.n < k \/ (x.n = k /\ ~x.half))

\* Math.max(v, k) for an integer literal k
mathMax(v, k) ==
    LET x == toNumber(v) IN
    IF IsNaN(x) THEN NaN ELSE IF x.n >= k THEN x ELSE Num(k)

-----------------------------------------------------------------------------
(* The analysis service's behaviour for one request *)

Unconfigured == [kind |-> "unconfigured", json |-> Invalid]   \* no ANTHROPIC_API_KEY
Throws == [kind |-> "throws", json |-> Invalid]               \* messages.create rejects
NoText == [kind |-> "notext", json |-> Invalid]               \* message.content[0] has no text
Text(j) == [kind |-> "text", json |-> j]                      \* text whose JSON.parse result is j

Analysis(requests, topics) == [raised |-> FALSE, requests |-> requests, topics |-> topics]
AnalysisRaised == [raised |-> TRUE, requests |-> 0, topics |-> <<>>]

-----------------------------------------------------------------------------
(* analyzeArticle of the ingest handler *)

fallbackTopic(title, defaultCity, priority) ==
    [title |-> title, location |-> defaultCity, is_local |-> Bool(TRUE),
     bullet |-> Str(<<>>), priority |-> Num(priority)]

\* Mutant: the list's length is not tested.
hasTopics_anyLength(parsed) ==
    truthy(get(parsed, "topics")) /\ get(parsed, "topics").t = "array"

hasTopics(parsed) ==
    /\ truthy(get(parsed, "topics"))
    /\ get(parsed, "topics").t = "array"
    /\ Len(get(parsed, "topics").a) > 0

sanitizePriority(p) ==
    IF truthy(p) /\ geInt(p, 1) /\ leInt(p, 5) THEN mathMax(p, 4) ELSE Num(4)

\* Mutant: is_local is the truthiness of the service's value.
sanitizeTopic_truthyLocal(t, title, defaultCity) ==
    [title |-> or(get(t, "title"), title),
     location |-> or(get(t, "location"), defaultCity),
     is_local |-> Bool(truthy(get(t, "is_local"))),
     bullet |-> or(get(t, "bullet"), Str(<<>>)),
     priority |-> sanitizePriority(get(t, "priority"))]

\* the object parsed.topics.map builds from the topic t
sanitizeTopic(t, title, defaultCity) ==
    [title |-> or(get(t, "title"), title),
     location |-> or(get(t, "location"), defaultCity),
     is_local |-> Bool(~strictEquals(get(t, "is_local"), Bool(FALSE))),
     bullet |-> or(get(t, "bullet"), Str(<<>>)),
     priority |-> sanitizePriority(get(t, "priority"))]

analyzeArticle(title, content, defaultCity, service) ==
    IF service.kind = "unconfigured"
    THEN Analysis(0, <<fallbackTopic(title, defaultCity, 3)>>)
    ELSE IF content.t # "string" THEN AnalysisRaised    \* content.slice is not a function
    ELSE
    LET caught == Analysis(1, <<fallbackTopic(title, defaultCity, 4)>>)
        parsed == service.json
    IN
    CASE service.kind = "throws" -> caught
      [] service.kind = "notext" -> caught
      [] parsed.t = "invalid" -> caught
      [] throwsOnRead(parsed) -> caught
      [] hasTopics(parsed) ->
            LET list == get(parsed, "topics").a IN
            IF \E i \in DOMAIN list : throwsOnRead(list[i]) THEN caught
            ELSE Analysis(1, [i \in DOMAIN list |->
                                 sanitizeTopic(list[i], title, defaultCity)])
      [] OTHER -> Analysis(1, <<fallbackTopic(title, defaultCity, 4)>>)

-----------------------------------------------------------------------------
(* analyzeArticle of the reprocess handler and of the URL-preview handler  *)
(* (the same text in both files)                                           *)

singleFallback ==
    [location |-> Str(Kansas), is_local |-> Bool(TRUE), bullet |-> Str(<<>>),
     priority |-> Num(3)]

checkedPriority(p) == IF geInt(p, 1) /\ leInt(p, 5) THEN p ELSE Num(3)

analyzeSingle(title, content, service) ==
    IF service.kind = "unconfigured" THEN Analysis(0, <<singleFallback>>)
    ELSE IF content.t # "string" THEN AnalysisRaised
    ELSE
    LET parsed == service.json IN
    CASE service.kind = "throws" -> Analysis(1, <<singleFallback>>)
      [] service.kind = "notext" -> Analysis(1, <<singleFallback>>)
      [] parsed.t = "invalid" -> Analysis(1, <<singleFallback>>)
      [] throwsOnRead(parsed) -> Analysis(1, <<singleFallback>>)
      [] OTHER ->
            Analysis(1, << [location |-> or(get(parsed, "location"), Str(Kansas)),
                            is_local |-> Bool(~strictEquals(get(parsed, "is_local"),
                                                            Bool(FALSE))),
                            bullet |-> or(get(parsed, "bullet"), Str(<<>>)),
                            priority |-> checkedPriority(get(parsed, "priority"))] >>)

analyzeArticle_process(title, content, service) == analyzeSingle(title, content, service)

analyzeArticle_preview(title, content, service) == analyzeSingle(title, content, service)

-----------------------------------------------------------------------------
(* Specification of the analyzers as functions of the service's answer *)

MaxTopics == 2

field(name, v) == IF v = Undefined THEN <<>> ELSE name :> v

TitleValues == {Undefined, Str(<<"Council vote">>)}
LocationValues == {Undefined, Str(Topeka), Str(<<>>), Num(5)}
IsLocalValues == {Undefined, Bool(FALSE), Null}
BulletValues == {Undefined, Str(<<"Summary.">>)}
PriorityValues ==
    {Undefined, Null, Num(0), Num(1), Num(3), Num(5), Num(6), NumHalf(0), NumHalf(2),
     NumHalf(4), NumHalf(5), Str(<<"5">>), Str(<<"2", ".", "5">>),
     Str(<<"h", "i", "g", "h">>), Str(<<>>), Bool(TRUE), Bool(FALSE), Arr(<<Num(2)>>)}

\* every object the service can put in a topic's place
TopicObjects ==
    {Obj(field("title", ti) @@ field("location", lo) @@ field("is_local", il)
         @@ field("bullet", bu) @@ field("priority", pr)) :
        ti \in TitleValues, lo \in LocationValues, il \in IsLocalValues,
        bu \in BulletValues, pr \in PriorityValues}

\* list elements used in lists of two or more
ListElements ==
    {Null, Num(7),
     Obj(("location" :> Str(Topeka)) @@ ("priority" :> Num(5))),
     Obj(("title" :> Str(<<"Road work">>)) @@ ("location" :> Str(Wichita))
         @@ ("is_local" :> Bool(FALSE)) @@ ("priority" :> NumHalf(2)))}

TopicLists ==
    {<<t>> : t \in TopicObjects}
    \cup UNION {[1..n -> ListElements] : n \in 0..MaxTopics}

ParsedValues ==
    {Invalid, Null, Num(5), Str(<<"ok">>), Arr(<<>>), Obj(<<>>),
     Obj("topics" :> Null), Obj("topics" :> Str(<<"none">>)), Obj("topics" :> Obj(<<>>))}
    \cup {Obj("topics" :> Arr(l)) : l \in TopicLists}
    \cup TopicObjects

ServiceOutcomes == {Unconfigured, Throws, NoText} \cup {Text(j) : j \in ParsedValues}

SourceTitle == Str(<<"Weekly roundup">>)
SourceContent == Str(<<"<p>Body</p>">>)
DefaultCity == Str(<<"K", "a", "n", "s", "a", "s", " ", "C", "i", "t", "y">>)

InitAnalyze ==
    /\ StoreIdle
    /\ arg \in [title : {SourceTitle}, content : {SourceContent, Num(404)},
                defaultCity : {DefaultCity}, service : ServiceOutcomes]
    /\ ret = [pc |-> "input"]

AnalyzeIngest ==
    /\ ret.pc = "input"
    /\ ret' = [pc |-> "done", fn |-> "ingest"]
              @@ analyzeArticle(arg.title, arg.content, arg.defaultCity, arg.service)
    /\ UNCHANGED <<arg, storeVars>>

AnalyzeProcess ==
    /\ ret.pc = "input"
    /\ ret' = [pc |-> "done", fn |-> "process"]
              @@ analyzeArticle_process(arg.title, arg.content, arg.service)
    /\ UNCHANGED <<arg, storeVars>>

AnalyzePreview ==
    /\ ret.pc = "input"
    /\ ret' = [pc |-> "done", fn |-> "preview"]
              @@ analyzeArticle_preview(arg.title, arg.content, arg.service)
    /\ UNCHANGED <<arg, storeVars>>

NextAnalyze == AnalyzeIngest \/ AnalyzeProcess \/ AnalyzePreview

SpecAnalyze == InitAnalyze /\ [][NextAnalyze]_vars

Analyzed(fn) == ret.pc = "done" /\ "fn" \in DOMAIN ret /\ ret.fn = fn

\* C3: whatever the analysis service does, analyze (given a string body)
\* does not raise and returns a list of at least one Topic.
C3_AnalyzeNonEmpty ==
    (Analyzed("ingest") /\ arg.content.t = "string") =>
        /\ ~ret.raised
        /\ Len(ret.topics) >= 1

\* the service answered with an empty topics list, or with a list holding null
C3_Witness ==
    /\ Analyzed("ingest")
    /\ arg.content.t = "string"
    /\ arg.service \in {Text(Obj("topics" :> Arr(<<>>))),
                        Text(Obj("topics" :> Arr(<<Null, Num(7)>>)))}
    /\ ret.topics = <<fallbackTopic(arg.title, arg.defaultCity, 4)>>

\* C4: every priority an analyzer returns is an integer in 1..5.
C4_PriorityIntegerInRange ==
    (ret.pc = "done" /\ "fn" \in DOMAIN ret /\ ~ret.raised) =>
        \A i \in DOMAIN ret.topics :
            /\ IsInteger(ret.topics[i].priority)
            /\ ret.topics[i].priority.n \in 1..5

-----------------------------------------------------------------------------
(* The ghost-webhook handler *)

MaxOps == 2

EXCLUDED_TAGS == {<<"b", "r", "i", "e", "f">>, <<"o", "b", "i", "t">>, <<"j", "a", "i", "l">>}

\* o?.name
optGet(o, name) == IF throwsOnRead(o) THEN Undefined ELSE get(o, name)

\* s.replace(c, '') for a one-character pattern: the first occurrence is removed
removeFirst(s, c) ==
    IF \E i \in DOMAIN s : s[i] = c
    THEN LET i == CHOOSE i \in DOMAIN s : s[i] = c /\ \A j \in 1..(i - 1) : s[j] # c
         IN  SubSeq(s, 1, i - 1) \o SubSeq(s, i + 1, Len(s))
    ELSE s

\* Mutant: only the slug of a tag is looked at.
tagExcluded_slugOnly(tag) ==
    LET slug == IF get(tag, "slug").t = "string"
                THEN toLowerCase(get(tag, "slug").s) ELSE <<>>
    IN  slug \in EXCLUDED_TAGS

\* the callback of tags.some
tagExcluded(tag) ==
    LET slug == IF get(tag, "slug").t = "string"
                THEN toLowerCase(get(tag, "slug").s) ELSE <<>>
        name == IF get(tag, "name").t = "string"
                THEN removeFirst(toLowerCase(get(tag, "name").s), "#") ELSE <<>>
    IN  slug \in EXCLUDED_TAGS \/ name \in EXCLUDED_TAGS

hasExcludedTag(post) ==
    LET tags == or(get(post, "tags"), Arr(<<>>)) IN
    \E i \in DOMAIN tags.a : tagExcluded(tags.a[i])

\* Mutant: every topic gets the suffix of the first one.
topicUrl_sameSuffix(url, n, i) ==
    IF n > 1 THEN Str(url.s \o <<"?topic=">> \o natToString(1)) ELSE url

\* the URL of topic i (counted from 1) of n
topicUrl(url, n, i) ==
    IF n > 1 THEN Str(url.s \o <<"?topic=">> \o natToString(i)) ELSE url

topicContent(title, content, n) ==
    IF n > 1 THEN Str(<<"[Part of: ">> \o toString(title) \o <<"]">>) ELSE content

\* upsert(..., {onConflict: "url", ignoreDuplicates: false}) into first_party_articles
\* Mutant: a plain insert, which adds a row whether or not the URL is stored.
upsertArticle_insert(rows, id, payload) ==
    rows \cup {payload @@ [id |-> id, discarded |-> Null, used |-> Null]}

upsertArticle(rows, id, payload) ==
    IF \E r \in rows : r.url = payload.url
    THEN {IF r.url = payload.url THEN payload @@ r ELSE r : r \in rows}
    ELSE rows \cup {payload @@ [id |-> id, discarded |-> Null, used |-> Null]}

\* the row saved for a topic: what the loop records after a successful upsert
topicSaved(acc, topic, m, url, rows) ==
    LET article == CHOOSE r \in rows : r.url = url IN
    [acc EXCEPT !.rows = rows,
                !.nextId = IF article.id = @ THEN @ + 1 ELSE @,
                !.insertedArticles =
                    Append(@, [id |-> article.id, title |-> topic.title,
                               location |-> topic.location, market |-> Str(m.market)]),
                !.geocodeCalls = @ + m.geocodeCalls,
                !.upserts = @ + 1]

\* the upsert of a topic's row
topicUpsert(acc, topic, m, payload) ==
    topicSaved(acc, topic, m, payload.url, upsertArticle(acc.rows, acc.nextId, payload))

\* one pass of the topic loop, for topic i whose market lookup gave m.  acc is
\* the store and the loop's locals so far; c is the loop's context.
topicPass(acc, i, c, topic, m) ==
    IF m.raised THEN [acc EXCEPT !.raised = TRUE, !.error = "TypeError"]
    ELSE IF c.writeFail = i         \* insertError
    THEN [acc EXCEPT !.geocodeCalls = @ + m.geocodeCalls, !.upserts = @ + 1,
                     !.failed = @ \cup {i}]
    ELSE topicUpsert(acc, topic, m,
                     [source_id |-> c.source.id,
                      title |-> topic.title,
                      url |-> topicUrl(c.url, Len(c.topics), i),
                      content |-> topicContent(c.title, c.content, Len(c.topics)),
                      published_at |-> c.publishedAt,
                      fetched_at |-> c.clock,
                      is_accessible |-> Bool(TRUE),
                      location |-> topic.location,
                      is_local |-> topic.is_local,
                      bullet |-> topic.bullet,
                      priority |-> topic.priority,
                      market |-> Str(m.market)])

\* the topic loop, from topic i on
RECURSIVE topicLoop(_, _, _)
topicLoop(acc, i, c) ==
    IF i > Len(c.topics) \/ acc.raised THEN acc
    ELSE topicLoop(topicPass(acc, i, c, c.topics[i],
                             getMarket(c.topics[i].location, c.geo)),
                   i + 1, c)

\* the calls a handler made: requests to the analysis service and to the
\* geocoder, upserts, the topics whose upsert failed, the tables queried
NoCalls == [analysis |-> 0, geocode |-> 0, upsert |-> 0, failed |-> {}, db |-> {}]

\* the handler's effect on the store, and its response together with what it
\* was asked (the post's URL) and the calls it made
WebhookReply(rows, id, url, status, body, calls) ==
    [rows |-> rows, nextId |-> id,
     response |-> [op |-> "ingest", url |-> url, status |-> status, body |-> body,
                   calls |-> calls]]

\* Mutant: a run that fails takes back the rows it wrote.
ingestReply_rollback(title, url, analysis, done) ==
    LET calls == [analysis |-> analysis.requests, geocode |-> done.geocodeCalls,
                  upsert |-> done.upserts, failed |-> done.failed,
                  db |-> IF done.upserts > 0 THEN {"sources", "first_party_articles"}
                         ELSE {"sources"}]
    IN
    IF done.raised
    THEN WebhookReply({r \in done.rows :
                          \A k \in DOMAIN done.insertedArticles :
                              done.insertedArticles[k].id # r.id},
                      done.nextId, url, 500, [error |-> done.error], calls)
    ELSE WebhookReply(done.rows, done.nextId, url, 200,
                      [status |-> "success", original_title |-> title,
                       topics_found |-> Len(analysis.topics),
                       articles |-> done.insertedArticles], calls)

\* the handler's reply once the topic loop has run
ingestReply(title, url, analysis, done) ==
    LET calls == [analysis |-> analysis.requests, geocode |-> done.geocodeCalls,
                  upsert |-> done.upserts, failed |-> done.failed,
                  db |-> IF done.upserts > 0 THEN {"sources", "first_party_articles"}
                         ELSE {"sources"}]
    IN
    IF done.raised
    THEN WebhookReply(done.rows, done.nextId, url, 500, [error |-> done.error], calls)
    ELSE WebhookReply(done.rows, done.nextId, url, 200,
                      [status |-> "success", original_title |-> title,
                       topics_found |-> Len(analysis.topics),
                       articles |-> done.insertedArticles], calls)

\* the store and the loop's locals when the topic loop starts
loopLocals(rows, id) ==
    [rows |-> rows, nextId |-> id, insertedArticles |-> <<>>,
     geocodeCalls |-> 0, upserts |-> 0, failed |-> {},
     raised |-> FALSE, error |-> ""]

\* what the topic loop reads and does not change
loopContext(req, clock, post, title, url, content, topics) ==
    [topics |-> topics, title |-> title, url |-> url,
     content |-> content,
     publishedAt |-> get(post, "published_at"),
     source |-> req.source, geo |-> req.geo,
     writeFail |-> req.writeFail, clock |-> clock]

\* the handler from the analysis on
ingestTopics(rows, id, req, clock, post, title, url, content, analysis) ==
    IF analysis.raised
    THEN WebhookReply(rows, id, url, 500, [error |-> "TypeError"],
                      [NoCalls EXCEPT !.analysis = analysis.requests, !.db = {"sources"}])
    ELSE ingestReply(title, url, analysis,
                     topicLoop(loopLocals(rows, id), 1,
                               loopContext(req, clock, post, title, url, content,
                                           analysis.topics)))

\* Mutant: the source is looked up before the required fields are checked.
ingestPost_lookupFirst(rows, id, req, clock, post, title, url, content) ==
    LET \* a reply without a write, together with the post it is about
        quiet(status, body, calls) ==
            [rows |-> rows, nextId |-> id,
             response |-> [post |-> post]
                          @@ WebhookReply(rows, id, Undefined, status, body, calls).response]
    IN
    CASE ~truthy(post) -> quiet(200, [status |-> "ignored"], NoCalls)
      [] hasExcludedTag(post) -> quiet(200, [status |-> "skipped"], NoCalls)
      [] ~truthy(title) \/ ~truthy(url) ->
            quiet(400, [error |-> "Missing required fields"],
                  [NoCalls EXCEPT !.db = {"sources"}])
      [] ~req.source.found ->
            quiet(500, [error |-> "Ghost source not configured"],
                  [NoCalls EXCEPT !.db = {"sources"}])
      [] OTHER ->
            ingestTopics(rows, id, req, clock, post, title, url, content,
                         analyzeArticle(title, content, or(req.source.city, Str(Kansas)),
                                        req.service))

\* the handler from the post's fields on
ingestPost(rows, id, req, clock, post, title, url, content) ==
    LET \* a reply without a write, together with the post it is about
        quiet(status, body, calls) ==
            [rows |-> rows, nextId |-> id,
             response |-> [post |-> post]
                          @@ WebhookReply(rows, id, Undefined, status, body, calls).response]
    IN
    CASE ~truthy(post) -> quiet(200, [status |-> "ignored"], NoCalls)
      [] hasExcludedTag(post) -> quiet(200, [status |-> "skipped"], NoCalls)
      [] ~truthy(title) \/ ~truthy(url) ->
            quiet(400, [error |-> "Missing required fields"], NoCalls)
      [] ~req.source.found ->
            quiet(500, [error |-> "Ghost source not configured"],
                  [NoCalls EXCEPT !.db = {"sources"}])
      [] OTHER ->
            ingestTopics(rows, id, req, clock, post, title, url, content,
                         analyzeArticle(title, content, or(req.source.city, Str(Kansas)),
                                        req.service))

\* the handler from the parsed payload on: post, then title, url and content
ingestPayload(rows, id, req, clock, post) ==
    ingestPost(rows, id, req, clock, post, optGet(post, "title"), optGet(post, "url"),
               or(or(optGet(post, "html"), optGet(post, "plaintext")), Str(<<>>)))

\* Mutant: a request that carries no secret parameter is let through.
unauthorized_whenGiven(req) ==
    /\ truthy(req.webhookSecret)
    /\ req.providedSecret # Null
    /\ ~strictEquals(req.providedSecret, req.webhookSecret)

\* webhookSecret && providedSecret !== webhookSecret
unauthorized(req) ==
    truthy(req.webhookSecret) /\ ~strictEquals(req.providedSecret, req.webhookSecret)

\* the outcome together with the method, the secrets and the body of the
\* request served, and whether ANTHROPIC_API_KEY was set
withAsked(out, req) ==
    [out EXCEPT !.response = @ @@ [asked |-> [method |-> req.method,
                                               webhookSecret |-> req.webhookSecret,
                                               providedSecret |-> req.providedSecret,
                                               body |-> req.body,
                                               configured |-> req.service # Unconfigured]]]

\* payload?.post?.current || payload?.post || payload
postOf(payload) ==
    or(or(optGet(optGet(payload, "post"), "current"), optGet(payload, "post")), payload)

\* Deno.serve handler of ghost-webhook, on the store (rows, id) at time clock
ghostWebhook(rows, id, req, clock) ==
    LET quiet(status, body) == WebhookReply(rows, id, Undefined, status, body, NoCalls) IN
    withAsked(
        CASE req.method = "OPTIONS" -> quiet(200, [text |-> "ok"])
          [] req.method = "GET" -> quiet(200, [status |-> "ok"])
          [] unauthorized(req) -> quiet(401, [error |-> "Unauthorized"])
          [] req.body = Invalid -> quiet(500, [error |-> "SyntaxError"])
          [] OTHER ->
                ingestPayload(rows, id, req, clock, postOf(req.body)),
        req)

-----------------------------------------------------------------------------
(* Webhook requests *)

PostUrl == Str(<<"https://blog.example/p1/">>)

GhostPost ==
    Obj(("title" :> SourceTitle) @@ ("url" :> PostUrl) @@ ("html" :> SourceContent)
        @@ ("published_at" :> Str(<<"2025-01-01T12:00:00.000Z">>)))

OtherUrl == Str(<<"https://blog.example/p2/">>)

OtherPost ==
    Obj(("title" :> Str(<<"Fair opens">>)) @@ ("url" :> OtherUrl)
        @@ ("plaintext" :> Str(<<"Fair body">>))
        @@ ("published_at" :> Str(<<"2025-01-02T08:00:00.000Z">>)))

TaggedPost ==
    Obj(GhostPost.f @@ ("tags" :> Arr(<< Obj(("slug" :> Str(<<"n", "e", "w", "s">>))
                                            @@ ("name" :> Str(<<"#", "B", "r", "i", "e", "f">>))) >>)))

\* a post with an ordinary tag and a tag whose slug is Obit
ObitPost ==
    Obj(GhostPost.f
        @@ ("tags" :> Arr(<< Obj(("slug" :> Str(<<"n", "e", "w", "s">>))
                                 @@ ("name" :> Str(<<"N", "e", "w", "s">>))),
                             Obj(("slug" :> Str(<<"O", "b", "i", "t">>))
                                 @@ ("name" :> Str(<<"O", "b", "i", "t", "s">>))) >>)))

\* a post whose only tag has the name JAIL and no slug
JailPost == Obj(GhostPost.f @@ ("tags" :> Arr(<< Obj("name" :> Str(<<"J", "A", "I", "L">>)) >>)))

\* a post whose only tag is briefs, which is not excluded
BriefsPost ==
    Obj(GhostPost.f
        @@ ("tags" :> Arr(<< Obj(("slug" :> Str(<<"b", "r", "i", "e", "f", "s">>))
                                 @@ ("name" :> Str(<<"#", "B", "r", "i", "e", "f", "s">>))) >>)))

UntitledPost == Obj([k \in DOMAIN GhostPost.f \ {"title"} |-> GhostPost.f[k]])

NoUrlPost == Obj([k \in DOMAIN GhostPost.f \ {"url"} |-> GhostPost.f[k]])

TaggedUntitledPost == Obj([k \in DOMAIN TaggedPost.f \ {"title"} |-> TaggedPost.f[k]])

Envelope(post) == Obj("post" :> Obj("current" :> post))

GhostSource == [found |-> TRUE, id |-> 1, city |-> DefaultCity]
NoSource == [found |-> FALSE, id |-> 0, city |-> Null]

\* what the service puts in a topic's place, in the store specifications
TopicA ==
    Obj(("title" :> Str(<<"Council vote">>)) @@ ("location" :> Str(Topeka))
        @@ ("is_local" :> Bool(TRUE)) @@ ("bullet" :> Str(<<"Summary.">>))
        @@ ("priority" :> Num(5)))
TopicB ==
    Obj(("location" :> Str(Smallville)) @@ ("is_local" :> Bool(FALSE))
        @@ ("priority" :> Num(2)))
TopicC ==
    Obj(("title" :> Str(<<"Road work">>)) @@ ("location" :> Num(5))
        @@ ("priority" :> Num(4)))

TopicCycle == <<TopicA, TopicB>>

\* the lists of n topics: the cycle read from each of its starting points
CycleLists(n) ==
    {[i \in 1..n |-> TopicCycle[((k + i - 2) % Len(TopicCycle)) + 1]] :
        k \in DOMAIN TopicCycle}

\* lists with a topic whose location is not a string
BadLists == {<<TopicC>>, <<TopicA, TopicC>>}

StoreServices ==
    {Unconfigured, Throws}
    \cup {Text(Obj("topics" :> Arr(l))) :
            l \in BadLists \cup UNION {CycleLists(n) : n \in 1..MaxTopics}}

StoreGeos == {GeoReject, GeoHit(ProbeNear)}

Delivery == [method |-> "POST", webhookSecret |-> Str(<<"s3cret">>),
             providedSecret |-> Str(<<"s3cret">>), body |-> Envelope(GhostPost),
             source |-> GhostSource, service |-> Unconfigured, geo |-> GeoReject,
             writeFail |-> 0]

WebhookRequests ==
    {[Delivery EXCEPT !.service = sv, !.geo = g, !.writeFail = w] :
        sv \in StoreServices, g \in StoreGeos, w \in 0..MaxTopics}
    \cup {[Delivery EXCEPT !.body = Envelope(OtherPost), !.service = sv] :
            sv \in StoreServices}
    \cup {[Delivery EXCEPT !.method = m] : m \in {"OPTIONS", "GET"}}
    \cup {[Delivery EXCEPT !.providedSecret = p] : p \in {Null, Str(<<"guess">>)}}
    \cup {[Delivery EXCEPT !.webhookSecret = Null, !.providedSecret = p] :
            p \in {Null, Str(<<"guess">>)}}
    \cup {[Delivery EXCEPT !.body = b] :
            b \in {Invalid, Null, GhostPost, Obj("post" :> GhostPost), Envelope(TaggedPost),
                   Envelope(UntitledPost), Envelope(NoUrlPost)}}
    \cup {[Delivery EXCEPT !.source = NoSource]}
    \cup {[Delivery EXCEPT !.body = Envelope(post), !.geo = GeoHit(ProbeNear),
                           !.service = Text(Obj("topics" :> Arr(l)))] :
            post \in {TaggedPost, ObitPost, JailPost, BriefsPost}, l \in CycleLists(1)}

InitStore ==
    /\ StoreIdle
    /\ arg = Null
    /\ ret = Null

\* Mutant: a delivery that wrote rows also logs a ledger row.
StoreAfter_logged(out) ==
    /\ first_party_articles' = out.rows
    /\ nextId' = out.nextId
    /\ response' = out.response
    /\ article_edits' =
          IF out.response.calls.upsert > 0
          THEN Append(article_edits,
                      [article_id |-> 0, table_name |-> "first_party_articles", field_name |-> "ingest",
                       old_value |-> Null, new_value |-> out.response.url,
                       edited_by |-> Null])
          ELSE article_edits
    /\ UNCHANGED article_markets

\* the store and the response after a delivery served with outcome out: the
\* handler writes first_party_articles only
StoreAfter(out) ==
    /\ first_party_articles' = out.rows
    /\ nextId' = out.nextId
    /\ response' = out.response
    /\ UNCHANGED <<article_edits, article_markets>>

Ingest ==
    /\ now < MaxOps
    /\ \E req \in WebhookRequests :
        StoreAfter(ghostWebhook(first_party_articles, nextId, req, now + 1))
    /\ now' = now + 1
    /\ UNCHANGED <<weather, arg, ret>>

NextIngest == Ingest

SpecIngest == InitStore /\ [][NextIngest]_vars

\* the last request was a webhook delivery that ran the topic loop to its end
Ingested == response.op = "ingest" /\ "topics_found" \in DOMAIN response.body

\* the row an entry of the returned article list refers to
RowOf(a) == CHOOSE r \in first_party_articles : r.id = a.id

\* the suffix the claim expects for topic i
ExpectedSuffix(i) == <<"?topic=", Digits[i + 1]>>

\* C2: one topic is stored under the post's URL; N > 1 topics are stored in
\* N rows under pairwise distinct URLs, the post's URL followed by a suffix
\* fixed by the topic's index.
C2_TopicUrls ==
    (Ingested /\ Len(response.body.articles) = response.body.topics_found) =>
        LET n == response.body.topics_found
            a == response.body.articles
        IN  /\ \A i \in 1..n : \E r \in first_party_articles : r.id = a[i].id
            /\ n = 1 => RowOf(a[1]).url = response.url
            /\ n > 1 =>
                /\ \A i \in 1..n :
                      RowOf(a[i]).url = Str(response.url.s \o ExpectedSuffix(i))
                /\ \A i, j \in 1..n : i # j => RowOf(a[i]).url # RowOf(a[j]).url
                /\ Cardinality({RowOf(a[i]) : i \in 1..n}) = n

C2_Witness ==
    /\ Ingested
    /\ response.body.topics_found = 2
    /\ Len(response.body.articles) = 2
    /\ response.url = PostUrl
    /\ {r.url : r \in first_party_articles} =
           {Str(PostUrl.s \o <<"?topic=", "1">>), Str(PostUrl.s \o <<"?topic=", "2">>)}

\* the row of first_party_articles keyed by url, if written by the last request
WrittenNow(url) == {r \in first_party_articles : r.url = url /\ r.fetched_at = now}

\* C12: when the upsert of a topic fails during an ingest, the request still
\* succeeds, every sibling topic is resolved and upserted under its own URL,
\* and the articles returned are exactly the topics whose upsert succeeded.
C12_FailedTopicSkipped ==
    (response.op = "ingest" /\ response.calls.failed # {}) =>
        /\ response.status = 200
        /\ "topics_found" \in DOMAIN response.body
        /\ LET n == response.body.topics_found
               a == response.body.articles
               saved == {i \in 1..n : i \notin response.calls.failed}
               urlOf(i) == IF n > 1 THEN Str(response.url.s \o ExpectedSuffix(i))
                           ELSE response.url
           IN  /\ response.calls.upsert = n
               /\ Len(a) = Cardinality(saved)
               /\ \A i \in saved :
                    \E r \in WrittenNow(urlOf(i)) : \E k \in DOMAIN a : a[k].id = r.id
               /\ \A i \in response.calls.failed : WrittenNow(urlOf(i)) = {}

isPrefix(p, s) == Len(p) <= Len(s) /\ SubSeq(s, 1, Len(p)) = p

\* the stored rows that derive from the post at url
RowsFor(url) == {r \in first_party_articles : isPrefix(url.s, r.url.s)}

\* C1: when the same post is delivered twice in a row and both deliveries
\* succeed (the second one yielding one topic, written without error), one
\* row is stored for the post and it holds what the second delivery wrote.
C1_ReingestOneRow ==
    [][(/\ Ingested
        /\ Ingested'
        /\ response'.url = response.url
        /\ response'.body.topics_found = 1
        /\ Len(response'.body.articles) = 1)
       => (/\ Cardinality(RowsFor(response.url)') = 1
           /\ \A r \in RowsFor(response.url)' :
                 /\ r.id = response'.body.articles[1].id
                 /\ r.fetched_at = now'
                 /\ r.title = response'.body.articles[1].title
                 /\ r.market = response'.body.articles[1].market)]_vars

-----------------------------------------------------------------------------
(* The update-article handler *)

FIRST_PARTY == "first_party_articles"

\* supabase.from(table): only first_party_articles is written by this
\* repository's handlers; table articles has no rows here
tableRows(table, rows) == IF table = FIRST_PARTY THEN rows ELSE {}

\* v?.toString() || null
textOrNull(v) ==
    IF throwsOnRead(v) THEN Null
    ELSE IF toString(v) = <<>> THEN Null ELSE Str(toString(v))

\* current[field], after select("priority, market, bullet")
currentValue(row, fieldName) ==
    IF fieldName \in {"priority", "market", "bullet"} THEN row[fieldName] ELSE Undefined

\* the rows to log for the entries from position i on, in the order of Object.entries
RECURSIVE changedFields(_, _, _, _)
changedFields(req, row, entries, i) ==
    IF i > Len(entries) THEN <<>>
    ELSE LET oldValue == currentValue(row, entries[i].field)
             newValue == entries[i].value
         IN  (IF ~strictEquals(oldValue, newValue)
              THEN << [article_id |-> req.id, table_name |-> req.table,
                       field_name |-> entries[i].field,
                       old_value |-> textOrNull(oldValue),
                       new_value |-> textOrNull(newValue),
                       edited_by |-> req.user_email] >>
              ELSE <<>>)
             \o changedFields(req, row, entries, i + 1)

\* update(changes): later entries of the same field win
RECURSIVE applyChanges(_, _, _)
applyChanges(row, entries, i) ==
    IF i > Len(entries) THEN row
    ELSE applyChanges([row EXCEPT ![entries[i].field] = entries[i].value], entries, i + 1)

\* Mutant: a failed ledger insert ends the request.
logEdits_fatal(ledger, edits, logError) ==
    [ledger |-> IF edits # <<>> /\ ~logError THEN ledger \o edits ELSE ledger,
     log |-> IF edits # <<>> /\ logError THEN {"Failed to log edits"} ELSE {},
     returned |-> edits # <<>> /\ logError,
     db |-> IF edits # <<>> THEN {"article_edits"} ELSE {}]

\* insert(edits) into article_edits when there are edits; an error is logged
\* and the handler goes on
logEdits(ledger, edits, logError) ==
    [ledger |-> IF edits # <<>> /\ ~logError THEN ledger \o edits ELSE ledger,
     log |-> IF edits # <<>> /\ logError THEN {"Failed to log edits"} ELSE {},
     returned |-> FALSE,
     db |-> IF edits # <<>> THEN {"article_edits"} ELSE {}]

\* the handler's effect on the store, and its response together with the
\* request, what it logged and the tables it queried
EditReply(rows, ledger, markets, req, status, body, log, db) ==
    [rows |-> rows, ledger |-> ledger, markets |-> markets,
     response |-> [op |-> "update", request |-> req, status |-> status, body |-> body,
                   log |-> log, calls |-> [NoCalls EXCEPT !.db = db]]]

\* Mutant: a plain insert, which adds a row whether or not the key is there.
upsertMarket_insert(markets, key) == Append(markets, key)

\* upsert(key, {onConflict: "article_id,table_name,market"}) into article_markets
upsertMarket(markets, key) ==
    IF \E i \in DOMAIN markets : markets[i] = key THEN markets ELSE Append(markets, key)

\* delete().eq("article_id", id).eq("table_name", table).eq("market", market)
deleteMarket(markets, key) == SelectSeq(markets, LAMBDA x : x # key)

\* Mutant: the ledger is rewritten to hold the new row only.
logMarketEdit_replace(ledger, e, logError) == IF logError THEN ledger ELSE <<e>>

\* insert(e) into article_edits; the result of the insert is not looked at
logMarketEdit(ledger, e, logError) == IF logError THEN ledger ELSE Append(ledger, e)

\* select("market").eq("article_id", id).eq("table_name", table), mapped to the markets
listMarkets(markets, id, table) ==
    LET mine == SelectSeq(markets, LAMBDA x : x.article_id = id /\ x.table_name = table)
    IN  [i \in DOMAIN mine |-> mine[i].market]

\* the add / remove branch, from the write to article_markets on
marketWritten(rows, ledger, req, after) ==
    EditReply(rows, ledger, after, req, 200,
              [success |-> TRUE, markets |-> listMarkets(after, req.id, req.table)], {},
              {"article_markets", "article_edits"})

\* the add / remove branch
marketAction(rows, ledger, markets, req) ==
    LET key == [article_id |-> req.id, table_name |-> req.table, market |-> req.market]
        entry(old, new) == [article_id |-> req.id, table_name |-> req.table,
                            field_name |-> "additional_market",
                            old_value |-> old, new_value |-> new,
                            edited_by |-> req.user_email]
    IN
    IF req.id = 0 \/ req.table = "" \/ ~truthy(req.market)
    THEN EditReply(rows, ledger, markets, req, 400,
                   [error |-> "Missing required fields"], {}, {})
    ELSE IF req.writeError
    THEN EditReply(rows, ledger, markets, req, 500, [error |-> "write failed"],
                   {IF req.action = "add" THEN "Insert error" ELSE "Delete error"},
                   {"article_markets"})
    ELSE IF req.action = "add"
    THEN marketWritten(rows, logMarketEdit(ledger, entry(Null, req.market), req.logError),
                       req, upsertMarket(markets, key))
    ELSE marketWritten(rows, logMarketEdit(ledger, entry(req.market, Null), req.logError),
                       req, deleteMarket(markets, key))

\* the field-update branch, from the update of the row on
applyUpdate(rows, markets, req, current, logged) ==
    CASE logged.returned ->
            EditReply(rows, logged.ledger, markets, req, 500,
                      [error |-> "Failed to log edits"], logged.log,
                      {req.table} \cup logged.db)
      [] req.writeError ->
            EditReply(rows, logged.ledger, markets, req, 500, [error |-> "Update failed"],
                      logged.log \cup {"Update failed"}, {req.table} \cup logged.db)
      [] OTHER ->
            EditReply((rows \ {current}) \cup {applyChanges(current, req.changes.e, 1)},
                      logged.ledger, markets, req, 200,
                      applyChanges(current, req.changes.e, 1), logged.log,
                      {req.table} \cup logged.db)

\* Mutant: the fetch is not checked: a missing row reads as empty values, the
\* changes are logged against them and the update, which matches no row, succeeds.
logChanges_unchecked(rows, ledger, markets, req, found) ==
    IF found = {}
    THEN EditReply(rows,
                   logEdits(ledger,
                            changedFields(req, [priority |-> Undefined, market |-> Undefined,
                                                bullet |-> Undefined],
                                          req.changes.e, 1),
                            req.logError).ledger,
                   markets, req, 200, [success |-> TRUE], {}, {req.table, "article_edits"})
    ELSE applyUpdate(rows, markets, req, CHOOSE r \in found : TRUE,
                     logEdits(ledger,
                              changedFields(req, CHOOSE r \in found : TRUE, req.changes.e, 1),
                              req.logError))

\* the field-update branch, from the fetch of the current values on
logChanges(rows, ledger, markets, req, found) ==
    IF found = {}
    THEN EditReply(rows, ledger, markets, req, 404, [error |-> "Article not found"],
                   {"Article not found"}, {req.table})
    ELSE applyUpdate(rows, markets, req, CHOOSE r \in found : TRUE,
                     logEdits(ledger,
                              changedFields(req, CHOOSE r \in found : TRUE, req.changes.e, 1),
                              req.logError))

\* the field-update branch
fieldUpdate(rows, ledger, markets, req) ==
    LET quiet(status, error) ==
            EditReply(rows, ledger, markets, req, status, [error |-> error], {}, {})
    IN
    CASE req.id = 0 \/ req.table = "" -> quiet(400, "Missing id or table")
      [] req.table \notin {"articles", FIRST_PARTY} -> quiet(400, "Invalid table")
      [] req.changes = Undefined \/ req.changes.e = <<>> -> quiet(400, "No changes provided")
      [] OTHER ->
            logChanges(rows, ledger, markets, req,
                       {r \in tableRows(req.table, rows) : r.id = req.id})

\* Deno.serve handler of update-article
updateArticle(rows, ledger, markets, req) ==
    IF req.invalidBody
    THEN EditReply(rows, ledger, markets, req, 500, [error |-> "SyntaxError"], {}, {})
    ELSE IF req.action \in {"add", "remove"}
    THEN marketAction(rows, ledger, markets, req)
    ELSE fieldUpdate(rows, ledger, markets, req)

-----------------------------------------------------------------------------
(* The process-article (reprocess) handler *)

ProcessReply(rows, req, status, body, calls) ==
    [rows |-> rows,
     response |-> [op |-> "process", request |-> req, status |-> status, body |-> body,
                   calls |-> calls]]

\* Mutant: the update also clears the row's discarded flag.
processedRow_undiscard(article, analysis, market) ==
    [article EXCEPT !.location = analysis.location,
                    !.is_local = analysis.is_local,
                    !.bullet = analysis.bullet,
                    !.priority = analysis.priority,
                    !.market = Str(market),
                    !.discarded = Bool(FALSE)]

\* update({location, is_local, bullet, priority, market}).eq("id", id): the row
\* after the update
processedRow(article, analysis, market) ==
    [article EXCEPT !.location = analysis.location,
                    !.is_local = analysis.is_local,
                    !.bullet = analysis.bullet,
                    !.priority = analysis.priority,
                    !.market = Str(market)]

\* the handler from the market lookup on: analysis is the analyzer's result
\* and m the market found for its location
updateProcessed(rows, req, article, requests, analysis, m) ==
    LET calls == [analysis |-> requests, geocode |-> m.geocodeCalls, upsert |-> 1,
                  failed |-> {}, db |-> {req.table}]
    IN
    CASE m.raised ->
            ProcessReply(rows, req, 500, [error |-> "TypeError"],
                         [NoCalls EXCEPT !.analysis = requests, !.db = {req.table}])
      [] req.writeError -> ProcessReply(rows, req, 500, [error |-> "Update failed"], calls)
      [] OTHER -> ProcessReply((rows \ {article})
                                 \cup {processedRow(article, analysis, m.market)},
                               req, 200, processedRow(article, analysis, m.market), calls)

\* the handler from the analysis on
resolveProcessed(rows, req, article, result) ==
    IF result.raised
    THEN ProcessReply(rows, req, 500, [error |-> "TypeError"],
                      [NoCalls EXCEPT !.db = {req.table}])
    ELSE updateProcessed(rows, req, article, result.requests, result.topics[1],
                         getMarketIn(MARKETS_process, result.topics[1].location, req.geo))

\* the handler from the fetch of the article on
analyzeFetched(rows, req, found) ==
    IF found = {}
    THEN ProcessReply(rows, req, 404, [error |-> "Article not found"],
                      [NoCalls EXCEPT !.db = {req.table}])
    ELSE resolveProcessed(rows, req, CHOOSE r \in found : TRUE,
                          analyzeArticle_process((CHOOSE r \in found : TRUE).title,
                                                 or((CHOOSE r \in found : TRUE).content,
                                                    Str(<<>>)),
                                                 req.service))

\* Deno.serve handler of process-article
processArticle(rows, req) ==
    LET quiet(status, error) == ProcessReply(rows, req, status, [error |-> error], NoCalls)
    IN
    CASE req.invalidBody -> quiet(500, "SyntaxError")
      [] req.id = 0 \/ req.table = "" -> quiet(400, "Missing id or table")
      [] req.table \notin {"articles", FIRST_PARTY} -> quiet(400, "Invalid table")
      [] OTHER -> analyzeFetched(rows, req,
                                 {r \in tableRows(req.table, rows) : r.id = req.id})

-----------------------------------------------------------------------------
(* updateArticleBullet of the dashboard: a direct update of the row *)

updateArticleBullet(rows, req) ==
    LET table == IF req.isFirstParty THEN FIRST_PARTY ELSE "articles"
        found == {r \in tableRows(table, rows) : r.id = req.id}
    IN
    IF req.writeError
    THEN [rows |-> rows,
          response |-> [op |-> "bullet", request |-> req, status |-> "throws"]]
    ELSE [rows |-> (rows \ found) \cup {[r EXCEPT !.bullet = req.bullet] : r \in found},
          response |-> [op |-> "bullet", request |-> req, status |-> "ok"]]

-----------------------------------------------------------------------------
(* Specification of the edit paths, on a store filled by two deliveries *)

Changes(e) == [t |-> "object", e |-> e]
Change(f, v) == [field |-> f, value |-> v]

ChangeSamples ==
    {Changes(<<Change("priority", Num(5))>>),
     Changes(<<Change("priority", Num(3))>>),
     Changes(<<Change("bullet", Str(<<>>))>>),
     Changes(<<Change("discarded", Bool(TRUE))>>),
     Changes(<<Change("market", Str(Newton)), Change("bullet", Str(<<"Edited.">>))>>)}

Editor == Str(<<"editor@example.com">>)

Edit == [invalidBody |-> FALSE, id |-> 1, table |-> FIRST_PARTY, action |-> "",
         market |-> Undefined, changes |-> Changes(<<Change("priority", Num(5))>>),
         user_email |-> Editor, logError |-> FALSE, writeError |-> FALSE]

UpdateRequests ==
    {[Edit EXCEPT !.id = i, !.changes = c, !.logError = o[1], !.writeError = o[2]] :
        i \in 1..2, c \in ChangeSamples,
        o \in {<<FALSE, FALSE>>, <<TRUE, FALSE>>, <<FALSE, TRUE>>, <<TRUE, TRUE>>}}
    \cup {[Edit EXCEPT !.invalidBody = TRUE], [Edit EXCEPT !.id = 0],
          [Edit EXCEPT !.table = "articles"], [Edit EXCEPT !.table = "drafts"],
          [Edit EXCEPT !.changes = Undefined], [Edit EXCEPT !.changes = Changes(<<>>)]}
    \cup {[Edit EXCEPT !.action = a, !.market = Str(Newton), !.logError = o[1],
                       !.writeError = o[2]] :
            a \in {"add", "remove"},
            o \in {<<FALSE, FALSE>>, <<TRUE, FALSE>>, <<FALSE, TRUE>>}}
    \cup {[Edit EXCEPT !.action = a, !.market = Str(Topeka)] : a \in {"add", "remove"}}
    \cup {[Edit EXCEPT !.action = "add"], [Edit EXCEPT !.table = ""],
          [Edit EXCEPT !.action = "remove", !.market = Str(Newton), !.id = 0],
          [Edit EXCEPT !.action = "add", !.market = Str(Newton), !.table = ""]}
    \cup {[Edit EXCEPT !.id = 9],
          [Edit EXCEPT !.action = "add", !.market = Str(Newton), !.id = 9],
          [Edit EXCEPT !.action = "add", !.market = Str(Newton), !.table = "drafts"]}

Reprocessed ==
    Obj(("location" :> Str(Newton)) @@ ("is_local" :> Bool(TRUE))
        @@ ("bullet" :> Str(<<"Fresh summary.">>)) @@ ("priority" :> Num(2)))

Process == [invalidBody |-> FALSE, id |-> 1, table |-> FIRST_PARTY,
            service |-> Unconfigured, geo |-> GeoReject, writeError |-> FALSE]

ProcessRequests ==
    {[Process EXCEPT !.id = i, !.service = sv, !.geo = g, !.writeError = w] :
        i \in 1..2, sv \in {Unconfigured, Text(Reprocessed), Text(Obj("location" :> Num(5)))},
        g \in {GeoHit(ProbeNewton)}, w \in BOOLEAN}
    \cup {[Process EXCEPT !.invalidBody = TRUE], [Process EXCEPT !.id = 0],
          [Process EXCEPT !.id = 9], [Process EXCEPT !.table = "drafts"],
          [Process EXCEPT !.id = 9, !.service = Text(Reprocessed)],
          [Process EXCEPT !.table = ""]}

BulletRequests ==
    [id : 1..2, bullet : {Str(<<"Hand-written.">>)}, isFirstParty : {TRUE},
     writeError : BOOLEAN]
    \cup [id : {1}, bullet : {Str(<<>>)}, isFirstParty : {FALSE}, writeError : {FALSE}]

\* the store after the post is delivered with the service unconfigured, and
\* the other post is then split into two topics
SeededAfter(first) ==
    ghostWebhook(first.rows, first.nextId,
                 [Delivery EXCEPT !.body = Envelope(OtherPost),
                                  !.service = Text(Obj("topics" :> Arr(<<TopicA, TopicB>>))),
                                  !.geo = GeoHit(ProbeNear)], 0)

Seeded == SeededAfter(ghostWebhook({}, 1, [Delivery EXCEPT !.service = Unconfigured], 0))

StoreOf(out) ==
    /\ first_party_articles = out.rows
    /\ nextId = out.nextId

InitEdit ==
    /\ StoreOf(Seeded)
    /\ article_edits = <<>>
    /\ article_markets = <<>>
    /\ weather = {}
    /\ now = 0
    /\ response = [op |-> "none"]
    /\ arg = Null
    /\ ret = Null

\* the store and the response after an update-article request served with
\* outcome out
EditsAfter(out) ==
    /\ first_party_articles' = out.rows
    /\ article_edits' = out.ledger
    /\ article_markets' = out.markets
    /\ response' = out.response

\* the store and the response after a request that writes only articles
RowsAfter(out) ==
    /\ first_party_articles' = out.rows
    /\ response' = out.response

UpdateArticle ==
    /\ now < MaxOps
    /\ \E req \in UpdateRequests :
        EditsAfter(updateArticle(first_party_articles, article_edits, article_markets, req))
    /\ now' = now + 1
    /\ UNCHANGED <<weather, nextId, arg, ret>>

ProcessArticle ==
    /\ now < MaxOps
    /\ \E req \in ProcessRequests : RowsAfter(processArticle(first_party_articles, req))
    /\ now' = now + 1
    /\ UNCHANGED <<article_edits, article_markets, weather, nextId, arg, ret>>

UpdateArticleBullet ==
    /\ now < MaxOps
    /\ \E req \in BulletRequests : RowsAfter(updateArticleBullet(first_party_articles, req))
    /\ now' = now + 1
    /\ UNCHANGED <<article_edits, article_markets, weather, nextId, arg, ret>>

NextEdit == UpdateArticle \/ ProcessArticle \/ UpdateArticleBullet

SpecEdit == InitEdit /\ [][NextEdit]_vars

-----------------------------------------------------------------------------
(* Claims about the edit paths *)

StoredRow(id) == CHOOSE r \in first_party_articles : r.id = id

\* the ledger rows the step appended
Appended == SubSeq(article_edits', Len(article_edits) + 1, Len(article_edits'))

RowsAbout(ledger, id, fieldName) ==
    {k \in 1..Len(ledger) : ledger[k].article_id = id /\ ledger[k].field_name = fieldName}

\* a field update that was applied and whose ledger insert did not fail
FieldUpdateApplied ==
    /\ response'.op = "update"
    /\ response'.request.action = ""
    /\ response'.status = 200
    /\ ~response'.request.logError

\* C5: a field update appends a ledger row for a field of its changes exactly
\* when the stored value of the field differs from the requested one; a
\* request that changes nothing appends no row; priority 3 to 5 appends exactly
\* one row, with old_value "3" and new_value "5".
C5_LedgerIffChanged ==
    [][FieldUpdateApplied =>
        LET req == response'.request
            stored == StoredRow(req.id)
            entries == req.changes.e
        IN  /\ \A i \in 1..Len(entries) :
                  LET about == RowsAbout(Appended, req.id, entries[i].field)
                  IN  /\ (about # {}) <=> ~strictEquals(stored[entries[i].field],
                                                        entries[i].value)
                      /\ (/\ entries[i].field = "priority"
                          /\ stored.priority = Num(3)
                          /\ entries[i].value = Num(5))
                            => /\ Cardinality(about) = 1
                               /\ \A k \in about :
                                    /\ Appended[k].old_value = Str(<<"3">>)
                                    /\ Appended[k].new_value = Str(<<"5">>)
            /\ (\A i \in 1..Len(entries) :
                    strictEquals(stored[entries[i].field], entries[i].value))
                 => Appended = <<>>]_vars

\* the ledger insert of the last update-article request failed
LedgerWriteFailed ==
    /\ response.op = "update"
    /\ ~response.request.invalidBody
    /\ \/ "Failed to log edits" \in response.log
       \/ /\ response.request.action \in {"add", "remove"}
          /\ response.request.logError
          /\ response.request.id # 0
          /\ response.request.table # ""
          /\ truthy(response.request.market)

\* C6: when the ledger insert fails and the update itself does not, the
\* update is applied and the caller receives the updated article (for an
\* additional market, the success reply), not an error.
C6_LedgerFailureNotFatal ==
    (LedgerWriteFailed /\ ~response.request.writeError) =>
        LET req == response.request
        IN  /\ response.status = 200
            /\ req.action = "" =>
                /\ response.body \in first_party_articles
                /\ response.body.id = req.id
                /\ \A i \in 1..Len(req.changes.e) :
                      (\A j \in (i + 1)..Len(req.changes.e) :
                            req.changes.e[j].field # req.changes.e[i].field)
                        => response.body[req.changes.e[i].field] = req.changes.e[i].value
            /\ req.action = "add" =>
                /\ response.body.success
                /\ \E i \in DOMAIN article_markets :
                      article_markets[i] = [article_id |-> req.id, table_name |-> req.table,
                                            market |-> req.market]

C6_Witness ==
    /\ LedgerWriteFailed
    /\ response.request.action = ""
    /\ response.request.changes = Changes(<<Change("priority", Num(5))>>)
    /\ response.status = 200
    /\ response.body.priority = Num(5)
    /\ StoredRow(response.request.id).priority = Num(5)
    /\ article_edits = <<>>

TrackedFields == {"priority", "market", "bullet", "discarded", "used", "location", "is_local"}

\* C7: every change of a stored article's field after its creation comes with
\* a ledger row that carries the field's value before and after the change.
C7_EveryMutationLogged ==
    [][\A old \in first_party_articles : \A new \in first_party_articles' :
          \A f \in TrackedFields :
            (/\ old.id = new.id
             /\ old[f] # new[f]
             /\ ~(response'.op = "update" /\ response'.request.logError))
              => \E k \in RowsAbout(Appended, old.id, f) :
                    /\ Appended[k].old_value = textOrNull(old[f])
                    /\ Appended[k].new_value = textOrNull(new[f])]_vars

\* the key of the last market request, and whether the side table holds it
RequestKey(req) == [article_id |-> req.id, table_name |-> req.table, market |-> req.market]
Holds(markets, key) == \E i \in DOMAIN markets : markets[i] = key

\* C13: article_markets never holds two rows with the same (article id, table,
\* market); adding a market that is present and removing one that is absent
\* leave the table as it was.
C13_SideTableIdempotent ==
    [][/\ \A i, j \in DOMAIN article_markets' :
            article_markets'[i] = article_markets'[j] => i = j
       /\ (response'.op = "update" /\ response'.request.action = "add"
           /\ Holds(article_markets, RequestKey(response'.request)))
             => article_markets' = article_markets
       /\ (response'.op = "update" /\ response'.request.action = "remove"
           /\ ~Holds(article_markets, RequestKey(response'.request)))
             => article_markets' = article_markets]_vars

\* the same market was added twice and is held once
C13_Witness ==
    /\ response.op = "update"
    /\ response.request.action = "add"
    /\ response.status = 200
    /\ Len(article_edits) = 2
    /\ article_edits[1] = article_edits[2]
    /\ article_edits[1].field_name = "additional_market"
    /\ article_markets = <<RequestKey(response.request)>>

\* the text of a value, null only for a missing value
asText(v) == IF throwsOnRead(v) THEN Null ELSE Str(toString(v))

\* C14: the ledger rows of a field update hold the old and the new value as
\* text, numbers and booleans stringified; null is recorded only for a missing
\* value, so an empty string is recorded as an empty string.
C14_LedgerValuesAsText ==
    [][FieldUpdateApplied =>
          \A k \in DOMAIN Appended :
              Appended[k].field_name \in {"priority", "market", "bullet"} =>
                  /\ Appended[k].old_value =
                        asText(StoredRow(response'.request.id)[Appended[k].field_name])
                  /\ \E i \in DOMAIN response'.request.changes.e :
                        /\ response'.request.changes.e[i].field = Appended[k].field_name
                        /\ Appended[k].new_value = asText(response'.request.changes.e[i].value)
      ]_vars

-----------------------------------------------------------------------------
(* Deliveries and edits on one store: the webhook and the editing functions
   run against the same tables. *)

\* deliveries of the two seeded posts: the first creates the two topic rows of
\* the first post, the second updates the two topic rows of the second post,
\* the third updates the row of the first post
DeskDeliveries ==
    {[Delivery EXCEPT !.service = Text(Obj("topics" :> Arr(TopicCycle))),
                      !.geo = GeoHit(ProbeNear)],
     [Delivery EXCEPT !.body = Envelope(OtherPost),
                      !.service = Text(Obj("topics" :> Arr(TopicCycle)))],
     [Delivery EXCEPT !.service = Throws]}
    \cup {[Delivery EXCEPT !.body = b] :
            b \in {Null, Envelope(UntitledPost), Envelope(NoUrlPost),
                   Envelope(TaggedUntitledPost)}}

Redeliver ==
    /\ now < MaxOps
    /\ \E req \in DeskDeliveries :
        StoreAfter(ghostWebhook(first_party_articles, nextId, req, now + 1))
    /\ now' = now + 1
    /\ UNCHANGED <<weather, arg, ret>>

NextDesk == Redeliver \/ UpdateArticle \/ ProcessArticle \/ UpdateArticleBullet

SpecDesk == InitEdit /\ [][NextDesk]_vars

\* C15: the ledger is append-only: over any sequence of ingest, reprocess,
\* field edit, add-market and remove-market, every step leaves the rows of
\* article_edits in place and at most adds rows after them.
C15_LedgerAppendOnly == [][isPrefix(article_edits, article_edits')]_vars

\* a market was added and then removed: the ledger holds both rows, in order
C15_Witness ==
    /\ response.op = "update"
    /\ response.request.action = "remove"
    /\ response.status = 200
    /\ Len(article_edits) = 2
    /\ article_edits[1].old_value = Null
    /\ article_edits[1].new_value = response.request.market
    /\ article_edits[2].old_value = response.request.market
    /\ article_edits[2].new_value = Null

\* C16: a delivery to the webhook writes no ledger row, whether it creates
\* rows or updates the rows already stored for the URL.
C16_IngestWritesNoLedger ==
    [][response'.op = "ingest" => article_edits' = article_edits]_vars

\* after an edit was logged, a delivery updated rows 2 and 3 on URL conflict
C16_Witness ==
    /\ response.op = "ingest"
    /\ response.status = 200
    /\ article_edits # <<>>
    /\ nextId = 4
    /\ Len(response.body.articles) = 2
    /\ response.body.articles[1].id = 2
    /\ response.body.articles[2].id = 3

\* the tables of the store
Tables == <<first_party_articles, article_edits, article_markets, nextId>>

\* the webhook answered about a post that has no title or no URL
PostLacksField ==
    /\ response.op = "ingest"
    /\ "post" \in DOMAIN response
    /\ ~truthy(optGet(response.post, "title")) \/ ~truthy(optGet(response.post, "url"))

\* update-article or process-article answered a request without id or table,
\* or a market action without id, table or market
RequestLacksField ==
    /\ response.op \in {"update", "process"}
    /\ ~response.request.invalidBody
    /\ \/ response.request.id = 0
       \/ response.request.table = ""
       \/ /\ response.op = "update"
          /\ response.request.action \in {"add", "remove"}
          /\ ~truthy(response.request.market)

\* no analysis, geocoding or persistence call was made and the step left the
\* tables as they were
NothingDone == response'.calls = NoCalls /\ UNCHANGED Tables

\* C17 as stated: every request that lacks a required field is answered with a
\* client error, without any analysis, geocoding or persistence call and
\* without a change to the store.
C17_MissingFieldsRejected ==
    [][(PostLacksField' \/ RequestLacksField') =>
          (response'.status = 400 /\ NothingDone)]_vars

\* C17, amended: a request that lacks a required field makes no analysis,
\* geocoding or persistence call and leaves the store unchanged; it is
\* answered with a client error, except that a webhook payload without a post
\* or whose post carries an excluded tag is answered 200 (ignored, skipped).
C17_MissingFieldsNoEffect ==
    [][(PostLacksField' \/ RequestLacksField') =>
          /\ NothingDone
          /\ response'.status =
                IF response'.op = "ingest"
                   /\ (~truthy(response'.post) \/ hasExcludedTag(response'.post))
                THEN 200 ELSE 400]_vars

\* a post without title was refused on a store that holds rows and a ledger
C17_Witness ==
    /\ response.op = "ingest"
    /\ response.status = 400
    /\ response.post = UntitledPost
    /\ response.calls = NoCalls
    /\ article_edits # <<>>

\* the fields a reprocess overwrites
AnalysisFields == {"location", "is_local", "bullet", "priority", "market"}

\* C18: a reprocess creates no row and changes nothing but the analysis fields
\* (location, is_local, bullet, priority, market) of the row with the given
\* id: that row's other fields and every other row stay as they were.
C18_ReprocessInPlace ==
    [][response'.op = "process" =>
          /\ nextId' = nextId
          /\ Cardinality(first_party_articles') = Cardinality(first_party_articles)
          /\ \A r \in first_party_articles :
                \E q \in first_party_articles' :
                    /\ q.id = r.id
                    /\ DOMAIN q = DOMAIN r
                    /\ r.id # response'.request.id => q = r
                    /\ \A f \in DOMAIN r \ AnalysisFields : q[f] = r[f]]_vars

\* a reprocess rewrote the analysis fields of a row the delivery had written
C18_Witness ==
    /\ response.op = "process"
    /\ response.status = 200
    /\ Cardinality(first_party_articles) = 3
    /\ \E r \in first_party_articles :
          /\ r.id = response.request.id
          /\ r.location = Str(Newton)
          /\ r.bullet = Str(<<"Fresh summary.">>)
          /\ r.priority = Num(2)
          /\ r.title \in {GhostPost.f["title"], Str(<<"Council vote">>)}

\* the ingest analyzer was given a non-empty list by the service, and every
\* element of the list can be read
ListSanitized ==
    /\ Analyzed("ingest")
    /\ ~ret.raised
    /\ arg.service.kind = "text"
    /\ arg.service.json.t = "object"
    /\ get(arg.service.json, "topics").t = "array"
    /\ get(arg.service.json, "topics").a # <<>>
    /\ \A i \in DOMAIN get(arg.service.json, "topics").a :
          ~throwsOnRead(get(arg.service.json, "topics").a[i])

\* C19: the analyzer returns one topic per topic of the service, each
\* sanitized on its own and field by field: the title is the service's, or the
\* source title when it is missing; the location is the service's, or the
\* default location when it is missing; is_local is false exactly when the
\* service returned false.
C19_SanitizedPerField ==
    ListSanitized =>
        /\ Len(ret.topics) = Len(get(arg.service.json, "topics").a)
        /\ \A i \in DOMAIN ret.topics :
              /\ ret.topics[i].title =
                    IF truthy(get(get(arg.service.json, "topics").a[i], "title"))
                    THEN get(get(arg.service.json, "topics").a[i], "title")
                    ELSE arg.title
              /\ ret.topics[i].location =
                    IF truthy(get(get(arg.service.json, "topics").a[i], "location"))
                    THEN get(get(arg.service.json, "topics").a[i], "location")
                    ELSE arg.defaultCity
              /\ ret.topics[i].is_local =
                    Bool(get(get(arg.service.json, "topics").a[i], "is_local") # Bool(FALSE))

\* two topics, the first without title and is_local, the second with both
C19_Witness ==
    /\ ListSanitized
    /\ Len(ret.topics) = 2
    /\ get(get(arg.service.json, "topics").a[1], "title") = Undefined
    /\ get(get(arg.service.json, "topics").a[1], "is_local") = Undefined
    /\ ret.topics[1].title = arg.title
    /\ ret.topics[1].is_local = Bool(TRUE)
    /\ ret.topics[2].title = Str(<<"Road work">>)
    /\ ret.topics[2].is_local = Bool(FALSE)

\* the service failed, returned text that does not parse, or an empty list
ServiceDegraded ==
    \/ arg.service.kind \in {"throws", "notext"}
    \/ arg.service.kind = "text" /\ arg.service.json = Invalid
    \/ arg.service.kind = "text" /\ arg.service.json = Obj("topics" :> Arr(<<>>))

\* C20: without configuration the ingest analyzer issues no request and returns
\* one topic with the source title, the default location, is_local true and an
\* empty bullet; when the service fails, returns unparsable output or an empty
\* list, the analyzer returns that same one-topic result.
C20_SameDegradedResult ==
    (Analyzed("ingest") /\ ~ret.raised) =>
        /\ arg.service.kind = "unconfigured" =>
              /\ ret.requests = 0
              /\ Len(ret.topics) = 1
              /\ ret.topics[1].title = arg.title
              /\ ret.topics[1].location = arg.defaultCity
              /\ ret.topics[1].is_local = Bool(TRUE)
              /\ ret.topics[1].bullet = Str(<<>>)
        /\ ServiceDegraded =>
              ret.topics =
                 analyzeArticle(arg.title, arg.content, arg.defaultCity, Unconfigured).topics

-----------------------------------------------------------------------------
(* Two runs of the webhook handler for the same delivery, interleaved.  arg
   holds the delivery and the store the runs started from, ret the position
   and the loop's locals of each run.  A run reads and writes the store only
   in the upsert of a topic, one statement of the database; its other steps
   (checks, source lookup, analysis, market lookup) leave the store alone. *)

Runs == 1..2

RetryServices ==
    {Unconfigured}
    \cup {Text(Obj("topics" :> Arr(l))) :
            l \in BadLists \cup UNION {CycleLists(n) : n \in 1..MaxTopics}}

RunPost == optGet(optGet(arg.req.body, "post"), "current")
RunContent == or(or(optGet(RunPost, "html"), optGet(RunPost, "plaintext")), Str(<<>>))
RunAnalysis ==
    analyzeArticle(optGet(RunPost, "title"), RunContent,
                   or(arg.req.source.city, Str(Kansas)), arg.req.service)

\* the loop's context for a pass made at time clock
RunContext(clock) ==
    loopContext(arg.req, clock, RunPost, optGet(RunPost, "title"), optGet(RunPost, "url"),
                RunContent, RunAnalysis.topics)

NoStore == [rows |-> {}, nextId |-> 1]

InitRetry ==
    /\ \E first \in {NoStore, [rows |-> Seeded.rows, nextId |-> Seeded.nextId]} :
          /\ StoreOf(first)
          /\ \E sv \in RetryServices, g \in StoreGeos :
                arg = [req |-> [Delivery EXCEPT !.service = sv, !.geo = g],
                       rows |-> first.rows, nextId |-> first.nextId]
    /\ article_edits = <<>>
    /\ article_markets = <<>>
    /\ weather = {}
    /\ now = 0
    /\ response = [op |-> "none"]
    /\ ret = [pc |-> "runs",
              run |-> [r \in Runs |-> [pc |-> "start", i |-> 0,
                                       locals |-> loopLocals({}, 0)]]]

\* run r has passed the checks and has its topics: the loop starts
StartRun(r) ==
    /\ ret.run[r].pc = "start"
    /\ ret' = [ret EXCEPT !.run[r] = [pc |-> "loop", i |-> 1, locals |-> loopLocals({}, 0)]]
    /\ UNCHANGED <<arg, storeVars>>

\* the store and the locals of run r after a pass of the loop that gave acc
PassDone(r, acc) ==
    /\ first_party_articles' = acc.rows
    /\ nextId' = acc.nextId
    /\ ret' = [ret EXCEPT !.run[r] = [pc |-> "loop", i |-> @.i + 1,
                                      locals |-> [acc EXCEPT !.rows = {}, !.nextId = 0]]]

\* run r makes one pass of the topic loop, for topic i
PassOf(r, i, c) ==
    PassDone(r, topicPass([ret.run[r].locals EXCEPT !.rows = first_party_articles,
                                                    !.nextId = nextId],
                          i, c, c.topics[i], getMarket(c.topics[i].location, c.geo)))

Pass(r) ==
    /\ ret.run[r].pc = "loop"
    /\ ~ret.run[r].locals.raised
    /\ ret.run[r].i <= Len(RunAnalysis.topics)
    /\ PassOf(r, ret.run[r].i, RunContext(now + 1))
    /\ now' = now + 1
    /\ UNCHANGED <<article_edits, article_markets, weather, response, arg>>

\* run r leaves the loop and answers
Finish(r) ==
    /\ ret.run[r].pc = "loop"
    /\ ret.run[r].locals.raised \/ ret.run[r].i > Len(RunAnalysis.topics)
    /\ response' = ingestReply(optGet(RunPost, "title"), optGet(RunPost, "url"), RunAnalysis,
                               [ret.run[r].locals EXCEPT !.rows = first_party_articles,
                                                         !.nextId = nextId]).response
    /\ ret' = [ret EXCEPT !.run[r].pc = "done"]
    /\ UNCHANGED <<first_party_articles, article_edits, article_markets, weather, nextId,
                   now, arg>>

NextRetry == \E r \in Runs : StartRun(r) \/ Pass(r) \/ Finish(r)

SpecRetry == InitRetry /\ [][NextRetry]_vars

\* both runs have answered
AllDone == ret.pc = "runs" /\ \A r \in Runs : ret.run[r].pc = "done"

\* what one run of the delivery makes of the store the runs started from
SingleRun ==
    ingestTopics(arg.rows, arg.nextId, arg.req, 0, RunPost, optGet(RunPost, "title"),
                 optGet(RunPost, "url"), RunContent, RunAnalysis)

\* rows without their generated id and the time of their last write
Untimed(rows) == {[r EXCEPT !.fetched_at = 0, !.id = 0] : r \in rows}

\* C21: when two runs of the same delivery, whose analyses gave the same
\* topics, have both ended, whatever the order of their steps, the store is
\* the one a single run leaves (up to generated ids and the time of the
\* writes): it has as many rows, no URL is stored twice and each topic URL of
\* a run that went through has one row.
C21_InterleavedRunsAsOne ==
    AllDone =>
        /\ Untimed(first_party_articles) = Untimed(SingleRun.rows)
        /\ Cardinality(first_party_articles) = Cardinality(SingleRun.rows)
        /\ \A r, q \in first_party_articles : r.url = q.url => r = q
        /\ SingleRun.response.status = 200 =>
              \A k \in 1..Len(RunAnalysis.topics) :
                  Cardinality({r \in first_party_articles :
                                  r.url = topicUrl(optGet(RunPost, "url"),
                                                   Len(RunAnalysis.topics), k)}) = 1

\* the runs overlapped: both wrote topic 1 before either wrote topic 2
C21_Witness ==
    /\ AllDone
    /\ Len(RunAnalysis.topics) = 2
    /\ now = 4
    /\ \E r \in first_party_articles :
          /\ r.url = topicUrl(optGet(RunPost, "url"), 2, 1)
          /\ r.fetched_at = 2
    /\ \E r \in first_party_articles :
          /\ r.url = topicUrl(optGet(RunPost, "url"), 2, 2)
          /\ r.fetched_at = 4

\* the answer r of a delivery that failed outright in the topic loop, after
\* the upsert of at least one topic
FailedInLoop(r) == r.op = "ingest" /\ r.status = 500 /\ r.calls.upsert > 0

\* a delivery is answered after one that failed in the loop for the same post
Retriggered ==
    /\ FailedInLoop(response)
    /\ response'.op = "ingest"
    /\ response'.url = response.url

\* C22: when a delivery fails outright at topic i, after the upsert of the
\* topics before it, the rows written for those topics are in the store and
\* no row stored before is gone; when the post is delivered again, the store
\* holds no URL twice and one row for each topic URL the new run wrote.
C22_NoRollbackRetrySafe ==
    [][/\ FailedInLoop(response') =>
            /\ \A k \in 1..response'.calls.upsert :
                  k \notin response'.calls.failed =>
                      \E r \in first_party_articles' :
                          /\ r.url = Str(response'.url.s \o ExpectedSuffix(k))
                          /\ r.fetched_at = now'
            /\ \A r \in first_party_articles :
                  \E q \in first_party_articles' : q.id = r.id
       /\ Retriggered =>
            /\ \A r, q \in first_party_articles' : r.url = q.url => r = q
            /\ \A k \in 1..response'.calls.upsert :
                  k \notin response'.calls.failed =>
                      Cardinality({r \in first_party_articles' :
                          /\ r.fetched_at = now'
                          /\ r.url = IF response'.status = 200
                                        /\ response'.body.topics_found = 1
                                     THEN response'.url
                                     ELSE Str(response'.url.s \o ExpectedSuffix(k))}) = 1
      ]_vars

\* a second delivery failed at topic 2 and the row of topic 1 is stored
C22_Witness ==
    /\ FailedInLoop(response)
    /\ now = 2
    /\ response.calls.upsert = 1
    /\ response.calls.failed = {}
    /\ WrittenNow(Str(response.url.s \o ExpectedSuffix(1))) # {}

-----------------------------------------------------------------------------
(* The weather function: fetches from the weather service and parseWeatherData *)

\* the outcome of a fetch: a response that is ok and whose body parses to data,
\* or anything else (a status that is not ok, a rejected fetch, a body that
\* does not parse)
Fetched(data) == [ok |-> TRUE, data |-> data]
FetchFailed == [ok |-> FALSE, data |-> Invalid]

\* data.properties, or null
getNwsGridpoint(res) ==
    IF ~res.ok \/ res.data = Invalid \/ throwsOnRead(res.data) THEN Null
    ELSE get(res.data, "properties")

\* data.properties.periods, or null
getForecast(res) ==
    IF ~res.ok \/ res.data = Invalid \/ throwsOnRead(res.data)
       \/ throwsOnRead(get(res.data, "properties"))
    THEN Null
    ELSE get(get(res.data, "properties"), "periods")

getHourlyForecast(res) ==
    IF ~res.ok \/ res.data = Invalid \/ throwsOnRead(res.data)
       \/ throwsOnRead(get(res.data, "properties"))
    THEN Null
    ELSE get(get(res.data, "properties"), "periods")

\* periods.length > 0: the length of an array or a string, no length otherwise
periodCount(periods) ==
    CASE periods.t = "array" -> Len(periods.a)
      [] periods.t = "string" -> Len(periods.s)
      [] OTHER -> 0

\* periods[i - 1]
periodAt(periods, i) ==
    IF periods.t = "array" THEN periods.a[i] ELSE Str(<<periods.s[i]>>)

hasPeriods(periods) == truthy(periods) /\ periodCount(periods) > 0

EmptyWeather ==
    [current_temp |-> Null, current_conditions |-> Null, forecast_high |-> Null,
     forecast_low |-> Null, forecast_conditions |-> Null, precip_chance |-> Null,
     detailed_forecast |-> Null, temperature_trend |-> Null]

\* current conditions from the first hourly period
withCurrent(snapshot, hourlyPeriods) ==
    IF hasPeriods(hourlyPeriods)
    THEN [snapshot EXCEPT
            !.current_temp = get(periodAt(hourlyPeriods, 1), "temperature"),
            !.current_conditions = get(periodAt(hourlyPeriods, 1), "shortForecast")]
    ELSE snapshot

\* precip && precip.value !== null
withPrecip(snapshot, precip) ==
    IF truthy(precip) /\ ~strictEquals(get(precip, "value"), Null)
    THEN [snapshot EXCEPT !.precip_chance = get(precip, "value")]
    ELSE snapshot

\* Mutant: the first period's temperature is always the high.
withHighLow_dayOnly(snapshot, today, forecastPeriods) ==
    [snapshot EXCEPT
        !.forecast_high = get(today, "temperature"),
        !.forecast_low = IF periodCount(forecastPeriods) > 1
                         THEN get(periodAt(forecastPeriods, 2), "temperature") ELSE @]

\* high and low from the first two periods, by today.isDaytime
withHighLow(snapshot, today, forecastPeriods) ==
    IF truthy(get(today, "isDaytime"))
    THEN [snapshot EXCEPT
            !.forecast_high = get(today, "temperature"),
            !.forecast_low = IF periodCount(forecastPeriods) > 1
                             THEN get(periodAt(forecastPeriods, 2), "temperature") ELSE @]
    ELSE [snapshot EXCEPT
            !.forecast_low = get(today, "temperature"),
            !.forecast_high = IF periodCount(forecastPeriods) > 1
                              THEN get(periodAt(forecastPeriods, 2), "temperature") ELSE @]

\* today's forecast from the first daily period
withToday(snapshot, today, forecastPeriods) ==
    withHighLow(withPrecip([snapshot EXCEPT
                               !.forecast_conditions = get(today, "shortForecast"),
                               !.detailed_forecast = get(today, "detailedForecast"),
                               !.temperature_trend = get(today, "temperatureTrend")],
                           get(today, "probabilityOfPrecipitation")),
                today, forecastPeriods)

\* a property is read of a period that is null or undefined
parseThrows(forecastPeriods, hourlyPeriods) ==
    \/ hasPeriods(hourlyPeriods) /\ throwsOnRead(periodAt(hourlyPeriods, 1))
    \/ /\ hasPeriods(forecastPeriods)
       /\ \/ throwsOnRead(periodAt(forecastPeriods, 1))
          \/ /\ periodCount(forecastPeriods) > 1
             /\ throwsOnRead(periodAt(forecastPeriods, 2))

parseWeatherData(forecastPeriods, hourlyPeriods) ==
    IF parseThrows(forecastPeriods, hourlyPeriods)
    THEN [raised |-> TRUE, weather |-> Null]
    ELSE [raised |-> FALSE,
          weather |-> IF hasPeriods(forecastPeriods)
                      THEN withToday(withCurrent(EmptyWeather, hourlyPeriods),
                                     periodAt(forecastPeriods, 1), forecastPeriods)
                      ELSE withCurrent(EmptyWeather, hourlyPeriods)]

\* { city, ...weather }
cityWeather(city, parsed) ==
    IF parsed.raised THEN parsed
    ELSE [raised |-> FALSE, weather |-> [city |-> city] @@ parsed.weather]

\* Mutant: the hourly periods are required too.
cityForecast_hourlyRequired(city, forecastPeriods, hourlyPeriods) ==
    IF ~truthy(forecastPeriods) \/ ~truthy(hourlyPeriods)
    THEN [raised |-> FALSE, weather |-> Null]
    ELSE cityWeather(city, parseWeatherData(forecastPeriods, hourlyPeriods))

\* fetchCityWeather from the two forecasts on
cityForecast(city, forecastPeriods, hourlyPeriods) ==
    IF ~truthy(forecastPeriods) THEN [raised |-> FALSE, weather |-> Null]
    ELSE cityWeather(city, parseWeatherData(forecastPeriods, hourlyPeriods))

\* fetchCityWeather from the gridpoint on
cityGrid(city, gridpoint, daily, hourly) ==
    IF ~truthy(gridpoint) \/ ~truthy(get(gridpoint, "forecast"))
    THEN [raised |-> FALSE, weather |-> Null]
    ELSE cityForecast(city, getForecast(daily),
                      IF truthy(get(gridpoint, "forecastHourly"))
                      THEN getHourlyForecast(hourly) ELSE Null)

\* fetchCityWeather, given the outcomes of the three fetches
fetchCityWeather(city, grid, daily, hourly) ==
    cityGrid(city, getNwsGridpoint(grid), daily, hourly)

-----------------------------------------------------------------------------
(* Specification of fetchCityWeather as a function of the three fetches *)

Period(isDaytime, temperature, precip) ==
    Obj(field("isDaytime", isDaytime) @@ ("temperature" :> temperature)
        @@ ("shortForecast" :> Str(<<"Sunny">>))
        @@ ("detailedForecast" :> Str(<<"Sunny, with a high near 71.">>))
        @@ ("temperatureTrend" :> Null)
        @@ field("probabilityOfPrecipitation", precip))

PrecipValues ==
    {Undefined, Null, Obj(<<>>), Obj("value" :> Null), Obj("value" :> Num(0)),
     Obj("value" :> Num(30))}

FirstPeriods ==
    {Period(d, Num(71), pr) : d \in {Undefined, Bool(TRUE), Bool(FALSE)}, pr \in PrecipValues}

SecondPeriods == {Period(Bool(FALSE), Num(48), Obj("value" :> Num(80))), Null}

DailyLists ==
    {<<>>, <<Null>>} \cup {<<p>> : p \in FirstPeriods}
    \cup {<<p, q>> : p \in FirstPeriods, q \in SecondPeriods}

Periods(list) == Fetched(Obj("properties" :> Obj("periods" :> Arr(list))))

DailyFetches ==
    {FetchFailed, Fetched(Null), Fetched(Obj(<<>>)), Fetched(Obj("properties" :> Obj(<<>>)))}
    \cup {Periods(l) : l \in DailyLists}

HourlyPeriod ==
    Obj(("temperature" :> Num(65)) @@ ("shortForecast" :> Str(<<"Clear">>)))

HourlyFetches == {FetchFailed, Periods(<<>>), Periods(<<HourlyPeriod>>), Periods(<<Null>>)}

ForecastUrl == Str(<<"https://api.weather.gov/gridpoints/TOP/1,1/forecast">>)
HourlyUrl == Str(<<"https://api.weather.gov/gridpoints/TOP/1,1/forecast/hourly">>)

Gridpoint == Fetched(Obj("properties" :> Obj(("forecast" :> ForecastUrl)
                                              @@ ("forecastHourly" :> HourlyUrl))))

GridFetches ==
    {FetchFailed, Fetched(Null), Fetched(Obj(<<>>)), Gridpoint,
     Fetched(Obj("properties" :> Obj("forecast" :> ForecastUrl))),
     Fetched(Obj("properties" :> Obj("forecastHourly" :> HourlyUrl)))}

Abilene == <<"Abilene">>

InitForecast ==
    /\ StoreIdle
    /\ arg \in [city : {Str(Abilene)}, grid : GridFetches, daily : DailyFetches,
                hourly : HourlyFetches]
    /\ ret = [pc |-> "input"]

FetchCityWeather ==
    /\ ret.pc = "input"
    /\ ret' = [pc |-> "done", fn |-> "fetchCityWeather"]
              @@ fetchCityWeather(arg.city, arg.grid, arg.daily, arg.hourly)
    /\ UNCHANGED <<arg, storeVars>>

NextForecast == FetchCityWeather

SpecForecast == InitForecast /\ [][NextForecast]_vars

\* fetchCityWeather has returned (it has not thrown)
Refreshed == Analyzed("fetchCityWeather") /\ ~ret.raised

\* the hourly forecast was asked for and the fetch failed
HourlyFailed ==
    /\ arg.grid.ok
    /\ truthy(get(optGet(arg.grid.data, "properties"), "forecastHourly"))
    /\ ~arg.hourly.ok

\* C23 as stated: the refresh of a city returns null when the gridpoint fetch,
\* the daily-forecast fetch or the hourly-forecast fetch fails, and a snapshot
\* only when all of them succeed.
C23_NullOnAnyFailure ==
    Refreshed =>
        /\ (~arg.grid.ok \/ ~arg.daily.ok \/ HourlyFailed) => ret.weather = Null
        /\ ret.weather # Null => (arg.grid.ok /\ arg.daily.ok /\ arg.hourly.ok)

\* C23, amended: the refresh of a city returns null when the gridpoint fetch or
\* the daily-forecast fetch fails, and a snapshot only when both succeed; when
\* only the hourly-forecast fetch fails it returns a snapshot whose current
\* temperature and conditions are null.
C23_NullOnRequiredFailure ==
    Refreshed =>
        /\ (~arg.grid.ok \/ ~arg.daily.ok) => ret.weather = Null
        /\ ret.weather # Null => (arg.grid.ok /\ arg.daily.ok)
        /\ (/\ HourlyFailed
            /\ truthy(get(optGet(arg.grid.data, "properties"), "forecast"))
            /\ truthy(getForecast(arg.daily))) =>
              /\ ret.weather # Null
              /\ ret.weather.city = arg.city
              /\ ret.weather.current_temp = Null
              /\ ret.weather.current_conditions = Null

\* the hourly fetch failed and a snapshot with today's high came back
C23_Witness ==
    /\ Refreshed
    /\ HourlyFailed
    /\ ret.weather # Null
    /\ ret.weather.forecast_high = Num(71)
    /\ ret.weather.forecast_low = Num(48)

\* the daily periods the refresh parsed
DailyPeriods == get(get(arg.daily.data, "properties"), "periods").a

\* the refresh returned a snapshot made from two daily periods or more
TwoPeriodsParsed ==
    /\ Refreshed
    /\ ret.weather # Null
    /\ Len(DailyPeriods) >= 2

\* C26: with two daily periods, when the first is daytime its temperature is
\* the high and the second's the low; when the first is nighttime its
\* temperature is the low and the second's the high; the precipitation chance
\* has a value only when the first period has a probability whose value is not
\* null, and is then that value.
C26_HighLowPrecip ==
    TwoPeriodsParsed =>
        /\ get(DailyPeriods[1], "isDaytime") = Bool(TRUE) =>
              /\ ret.weather.forecast_high = get(DailyPeriods[1], "temperature")
              /\ ret.weather.forecast_low = get(DailyPeriods[2], "temperature")
        /\ get(DailyPeriods[1], "isDaytime") = Bool(FALSE) =>
              /\ ret.weather.forecast_low = get(DailyPeriods[1], "temperature")
              /\ ret.weather.forecast_high = get(DailyPeriods[2], "temperature")
        /\ ret.weather.precip_chance \notin {Null, Undefined} =>
              /\ get(DailyPeriods[1], "probabilityOfPrecipitation") \notin {Null, Undefined}
              /\ ret.weather.precip_chance =
                    get(get(DailyPeriods[1], "probabilityOfPrecipitation"), "value")
        /\ (\/ get(DailyPeriods[1], "probabilityOfPrecipitation") \in {Null, Undefined}
            \/ get(get(DailyPeriods[1], "probabilityOfPrecipitation"), "value") = Null)
              => ret.weather.precip_chance = Null

\* a first period at night, with a chance of precipitation of 0
C26_Witness ==
    /\ TwoPeriodsParsed
    /\ get(DailyPeriods[1], "isDaytime") = Bool(FALSE)
    /\ ret.weather.forecast_low = Num(71)
    /\ ret.weather.forecast_high = Num(48)
    /\ ret.weather.precip_chance = Num(0)

-----------------------------------------------------------------------------
(* The weather function: the handler, on the weather table *)

MaxCities == 2

\* the keys of CITY_COORDS, in order
CITY_COORDS == <<Abilene, <<"Arkansas City">>, <<"Dodge City">>, <<"Emporia">>>>

cities == SubSeq(CITY_COORDS, 1, MaxCities)

isSpace(c) == c \in {" ", "\n"}

RECURSIVE trimStart(_)
trimStart(s) == IF s # <<>> /\ isSpace(Head(s)) THEN trimStart(Tail(s)) ELSE s

RECURSIVE trimEnd(_)
trimEnd(s) ==
    IF s # <<>> /\ isSpace(s[Len(s)]) THEN trimEnd(SubSeq(s, 1, Len(s) - 1)) ELSE s

\* String.prototype.trim
trim(s) == trimEnd(trimStart(s))

\* message.content[0]
firstBlock(message) ==
    IF get(message, "content").t = "array" /\ Len(get(message, "content").a) > 0
    THEN get(message, "content").a[1]
    ELSE Undefined

\* generateWeatherBullet, given the outcome of messages.create: the trimmed
\* text, or null when the call or the reading of its text throws
generateWeatherBullet(res) ==
    IF ~res.ok \/ throwsOnRead(get(res.data, "content")) \/ throwsOnRead(firstBlock(res.data))
       \/ get(firstBlock(res.data), "text").t # "string"
    THEN Null
    ELSE Str(trim(get(firstBlock(res.data), "text").s))

\* if (bullet) weather.bullet = bullet
withBullet(snapshot, bullet) ==
    IF truthy(bullet) THEN snapshot @@ [bullet |-> bullet] ELSE snapshot

Columns == DOMAIN EmptyWeather \cup {"city", "bullet"}

\* the columns of the request body: JSON.stringify leaves out the properties
\* whose value is undefined
sent(payload) == {c \in DOMAIN payload : payload[c] # Undefined}

\* the row after the upsert: the columns sent are written, the others keep
\* the value they had
storedRow(old, payload) ==
    [c \in Columns |-> IF c \in sent(payload) THEN payload[c] ELSE old[c]]

\* a new row before its columns are written: every column is null
BlankRow == [c \in Columns |-> Null]

\* from("weather").upsert(weather, { onConflict: "city" })
upsertWeather(table, payload) ==
    IF \E r \in table : r.city = payload.city
    THEN {IF r.city = payload.city THEN storedRow(r, payload) ELSE r : r \in table}
    ELSE table \cup {storedRow(BlankRow, payload)}

\* weather.current_temp ?? undefined
nullish(v) == IF v \in {Null, Undefined} THEN Undefined ELSE v

LoopState(raised, table, results) ==
    [raised |-> raised, table |-> table, results |-> results]

RECURSIVE cityLoop(_, _, _, _)

\* the upsert of a city's snapshot and its entry in results
cityStore(table, results, i, req, payload) ==
    IF req.cities[i].db
    THEN cityLoop(upsertWeather(table, payload),
                  Append(results, [city |-> Str(cities[i]), status |-> "success",
                                   temp |-> nullish(payload.current_temp)]),
                  i + 1, req)
    ELSE cityLoop(table,
                  Append(results, [city |-> Str(cities[i]), status |-> "db_error"]),
                  i + 1, req)

\* the loop body, from the result of fetchCityWeather on
cityStep(table, results, i, req, fetched) ==
    IF fetched.raised THEN LoopState(TRUE, table, results)
    ELSE IF fetched.weather = Null
    THEN cityLoop(table, Append(results, [city |-> Str(cities[i]), status |-> "failed"]),
                  i + 1, req)
    ELSE cityStore(table, results, i, req,
                   withBullet(fetched.weather,
                              generateWeatherBullet(req.cities[i].message)))

\* for (const [city, [lat, lon]] of cities), from the i-th city on
cityLoop(table, results, i, req) ==
    IF i > Len(cities) THEN LoopState(FALSE, table, results)
    ELSE cityStep(table, results, i, req,
                  fetchCityWeather(Str(cities[i]), req.cities[i].grid, req.cities[i].daily,
                                   req.cities[i].hourly))

WeatherReply(table, req, status, body) ==
    [table |-> table,
     response |-> [op |-> "weather", request |-> req, status |-> status, body |-> body]]

\* results.filter(r => r.status === "success").length
successCount(results) == Cardinality({i \in DOMAIN results : results[i].status = "success"})

\* the response after the loop, or the one of the catch
weatherSummary(req, out) ==
    IF out.raised
    THEN WeatherReply(out.table, req, 500, [error |-> "TypeError"])
    ELSE WeatherReply(out.table, req, 200,
                      [status |-> "complete", cities_updated |-> successCount(out.results),
                       total_cities |-> Len(cities), results |-> out.results])

\* the Deno.serve handler of the weather function
fetchWeather(table, req) ==
    CASE req.method = "OPTIONS" -> WeatherReply(table, req, 200, [text |-> "ok"])
      [] req.method = "GET" /\ ~req.run -> WeatherReply(table, req, 200, [status |-> "ok"])
      [] truthy(req.webhookSecret) /\ ~strictEquals(req.providedSecret, req.webhookSecret) ->
            WeatherReply(table, req, 401, [error |-> "Unauthorized"])
      [] ~truthy(req.anthropicKey) ->
            WeatherReply(table, req, 500, [error |-> "ANTHROPIC_API_KEY not configured"])
      [] OTHER -> weatherSummary(req, cityLoop(table, <<>>, 1, req))

-----------------------------------------------------------------------------
(* Specification of the weather function: refresh cycles on the weather table *)

\* today's high and the narrative of the cycle served at clock
HighAt(clock) == Num(70 + clock)
NarrativeAt(clock) == <<"Sunny, high near 7">> \o natToString(clock) \o <<".">>

\* a city for which every fetch, the narrative and the upsert succeed
Fair(clock) ==
    [grid |-> Gridpoint,
     daily |-> Periods(<<Period(Bool(TRUE), HighAt(clock), Obj("value" :> Num(30))),
                         Period(Bool(FALSE), Num(48), Obj("value" :> Num(80)))>>),
     hourly |-> Periods(<<HourlyPeriod>>),
     message |-> Fetched(Obj("content" :>
                    Arr(<<Obj("text" :> Str(<<" ">> \o NarrativeAt(clock) \o <<"\n">>))>>))),
     db |-> TRUE]

\* what can happen to a city in a cycle: the gridpoint fetch fails, all goes
\* well, messages.create rejects, the upsert returns an error, the hourly
\* forecast lists a null period
CityOutcomes(clock) ==
    {[Fair(clock) EXCEPT !.grid = FetchFailed],
     Fair(clock),
     [Fair(clock) EXCEPT !.message = FetchFailed],
     [Fair(clock) EXCEPT !.db = FALSE],
     [Fair(clock) EXCEPT !.hourly = Periods(<<Null>>)]}

\* the scheduled request: no WEATHER_WEBHOOK_SECRET, ANTHROPIC_API_KEY set
Scheduled(clock) ==
    [method |-> "POST", run |-> TRUE, webhookSecret |-> Undefined, providedSecret |-> Null,
     anthropicKey |-> Str(<<"sk-ant">>), cities |-> [i \in 1..MaxCities |-> Fair(clock)]]

WeatherRequests(clock) ==
    {[Scheduled(clock) EXCEPT !.cities = c] : c \in [1..MaxCities -> CityOutcomes(clock)]}
    \cup {[Scheduled(clock) EXCEPT !.method = "OPTIONS"],
          [Scheduled(clock) EXCEPT !.method = "GET", !.run = FALSE],
          [Scheduled(clock) EXCEPT !.method = "GET"],
          [Scheduled(clock) EXCEPT !.webhookSecret = Str(<<"s3cret">>)],
          [Scheduled(clock) EXCEPT !.webhookSecret = Str(<<"s3cret">>),
                                   !.providedSecret = Str(<<"s3cret">>)],
          [Scheduled(clock) EXCEPT !.anthropicKey = Undefined]}

InitWeather ==
    /\ StoreIdle
    /\ arg = Null
    /\ ret = Null

WeatherAfter(out) ==
    /\ weather' = out.table
    /\ response' = out.response

FetchWeather ==
    /\ now < MaxOps
    /\ \E req \in WeatherRequests(now + 1) : WeatherAfter(fetchWeather(weather, req))
    /\ now' = now + 1
    /\ UNCHANGED <<first_party_articles, article_edits, article_markets, nextId, arg, ret>>

NextWeather == FetchWeather

SpecWeather == InitWeather /\ [][NextWeather]_vars

\* the last request asked for a refresh: it was neither a preflight nor a
\* health check, and it carried the secret if one is configured
RefreshAsked ==
    /\ response.op = "weather"
    /\ response.request.method # "OPTIONS"
    /\ response.request.method = "GET" => response.request.run
    /\ \/ ~truthy(response.request.webhookSecret)
       \/ response.request.providedSecret = response.request.webhookSecret

\* what happened to the i-th city in the last refresh
CityOutcome(i) == response.request.cities[i]

\* the three fetches of the i-th city succeeded
FetchesSucceeded(i) ==
    CityOutcome(i).grid.ok /\ CityOutcome(i).daily.ok /\ CityOutcome(i).hourly.ok

\* the rows stored for the i-th city
SnapshotsOf(i) == {r \in weather : r.city = Str(cities[i])}

\* C24: the text-completion service failing or being unconfigured is not fatal
\* to a snapshot: after a refresh, every city whose fetches succeeded (and
\* whose write was accepted) has a snapshot of this cycle stored, and its
\* bullet is null if the narrative failed or the service is unconfigured.
C24_NarrativeNotFatal ==
    RefreshAsked =>
        \A i \in DOMAIN cities :
            (FetchesSucceeded(i) /\ CityOutcome(i).db) =>
                \E r \in SnapshotsOf(i) :
                    /\ r.forecast_high = HighAt(now)
                    /\ (~CityOutcome(i).message.ok \/ ~truthy(response.request.anthropicKey))
                          => r.bullet = Null

\* C25: after a refresh has stored a city's snapshot, every field of the
\* stored row comes from that cycle: the forecast is the one fetched in the
\* cycle, and the bullet is the cycle's narrative or null, never the narrative
\* of an earlier cycle.
C25_FullyOverwritten ==
    (RefreshAsked /\ response.status = 200) =>
        \A i \in DOMAIN cities :
            response.body.results[i].status = "success" =>
                \E r \in SnapshotsOf(i) :
                    /\ r.forecast_high = HighAt(now)
                    /\ r.forecast_low = Num(48)
                    /\ r.current_temp = Num(65)
                    /\ r.bullet \in {Null, Str(NarrativeAt(now))}

\* C28: a refresh (authorized, with the text service configured) ends with
\* one result per configured city, in order, whatever failed for other
\* cities; a city for which everything succeeds is stored; and cities_updated
\* counts the cities whose snapshot was stored in the cycle.
C28_OneResultPerCity ==
    (RefreshAsked /\ truthy(response.request.anthropicKey)) =>
        /\ response.status = 200
        /\ Len(response.body.results) = Len(cities)
        /\ \A i \in DOMAIN cities :
              /\ response.body.results[i].city = Str(cities[i])
              /\ (FetchesSucceeded(i) /\ CityOutcome(i).db)
                    => response.body.results[i].status = "success"
              /\ response.body.results[i].status = "success"
                    <=> \E r \in SnapshotsOf(i) : r.forecast_high = HighAt(now)
        /\ response.body.cities_updated =
              Cardinality({i \in DOMAIN cities :
                              \E r \in SnapshotsOf(i) : r.forecast_high = HighAt(now)})

-----------------------------------------------------------------------------
(* The shared secret of the webhook *)

\* the request just served was a POST
PostServed == response'.op = "ingest" /\ response'.asked.method = "POST"

\* a secret is configured and the parameter of the request just served is
\* missing or different
SecretMismatch ==
    /\ response'.asked.webhookSecret # Null
    /\ response'.asked.providedSecret # response'.asked.webhookSecret

\* C27: a POST served while a secret is configured, with the secret parameter
\* missing or different, is answered 401 Unauthorized, makes no analysis,
\* geocoding or store call and leaves every table as it was; a POST served
\* while no secret is configured is not rejected, whatever its parameter: the
\* delivery is processed and its topic written.
C27_SecretGate ==
    [][PostServed =>
        /\ SecretMismatch =>
              /\ response'.status = 401
              /\ response'.body = [error |-> "Unauthorized"]
              /\ response'.calls = NoCalls
              /\ UNCHANGED Tables
        /\ response'.asked.webhookSecret = Null =>
              /\ response'.status = 200
              /\ response'.calls.upsert = 1
              /\ \E r \in first_party_articles' : r.url = response'.url]_vars

\* a POST with a wrong secret turned away while the row of an earlier delivery
\* is in the store
C27_Witness ==
    /\ now = 2
    /\ response.op = "ingest"
    /\ response.asked.method = "POST"
    /\ response.asked.webhookSecret = Str(<<"s3cret">>)
    /\ response.asked.providedSecret = Str(<<"guess">>)
    /\ response.status = 401
    /\ Cardinality(first_party_articles) = 1
    /\ nextId = 2

-----------------------------------------------------------------------------
(* Anchors at the same distance *)

\* anchor i is at the smallest distance from the geocoded coordinate, and so
\* is another anchor
TiedNearest(i) ==
    /\ \A j \in DOMAIN MARKETS : AnchorDistance(i) <= AnchorDistance(j)
    /\ \E j \in DOMAIN MARKETS : j # i /\ AnchorDistance(j) = AnchorDistance(i)

\* C29: when several anchors are at exactly the same smallest distance from
\* the geocoded coordinate (within the threshold), the market returned is the
\* one of the first of them in the order of MARKETS.
C29_FirstOfTiedWins ==
    GeocodedCoordinate =>
        \A i \in DOMAIN MARKETS :
            (/\ TiedNearest(i)
             /\ \A j \in 1..(i - 1) : ~TiedNearest(j)
             /\ AnchorDistance(i) <= 30 * 1000 * 1000)
            => ret.market = MARKETS[i].name

\* the coordinate as far from Junction City as from Manhattan resolves to
\* Junction City, which comes first in MARKETS
C29_Witness ==
    /\ GeocodedCoordinate
    /\ arg.geo = GeoHit(ProbeTie)
    /\ AnchorDistance(12) = AnchorDistance(13)
    /\ TiedNearest(12)
    /\ MARKETS[12].name = <<"J", "u", "n", "c", "t", "i", "o", "n", " ", "C", "i", "t", "y">>
    /\ ret.market = MARKETS[12].name

-----------------------------------------------------------------------------
(* Ledger rows and the changes applied *)

\* the request just served was a field edit
FieldEditServed == response'.op = "update" /\ response'.request.action = ""

\* the step changed field f of article id from the value recorded as old to
\* the value recorded as new
ChangeApplied(id, f, old, new) ==
    \E before \in first_party_articles : \E after \in first_party_articles' :
        /\ before.id = id
        /\ after.id = id
        /\ before[f] # after[f]
        /\ textOrNull(before[f]) = old
        /\ textOrNull(after[f]) = new

\* C30: every ledger row a field edit appends describes a change the request
\* applied: the article's field went from the row's old_value to its new_value
\* in that request, also when the update of the article fails.
C30_LedgerRowsApplied ==
    [][FieldEditServed =>
          \A k \in DOMAIN Appended :
              ChangeApplied(Appended[k].article_id, Appended[k].field_name,
                            Appended[k].old_value, Appended[k].new_value)]_vars

-----------------------------------------------------------------------------
(* Specification of two field updates served at the same time: each request
   reads the current values, inserts its ledger rows and updates the row, and
   the store may serve the other request between any two of these calls *)

\* field updates of article 1 whose writes all succeed
RaceRequests ==
    {[Edit EXCEPT !.changes = c] : c \in ChangeSamples}

InitRace ==
    /\ StoreOf(Seeded)
    /\ article_edits = <<>>
    /\ article_markets = <<>>
    /\ weather = {}
    /\ now = 0
    /\ response = [op |-> "none"]
    /\ arg \in [Runs -> RaceRequests]
    /\ ret = [pc |-> "edits", run |-> [r \in Runs |-> [pc |-> "start", current |-> Null]]]

\* request r fetches the current values of its article
FetchCurrent(r) ==
    /\ ret.run[r].pc = "start"
    /\ LET found == {x \in tableRows(arg[r].table, first_party_articles) : x.id = arg[r].id}
       IN  IF found = {}
           THEN /\ response' = EditReply(first_party_articles, article_edits,
                                         article_markets, arg[r], 404,
                                         [error |-> "Article not found"],
                                         {"Article not found"}, {arg[r].table}).response
                /\ ret' = [ret EXCEPT !.run[r].pc = "done"]
           ELSE /\ ret' = [ret EXCEPT !.run[r] = [pc |-> "fetched",
                                                  current |-> CHOOSE x \in found : TRUE]]
                /\ UNCHANGED response
    /\ UNCHANGED <<first_party_articles, article_edits, article_markets, weather, nextId,
                   now, arg>>

\* request r inserts the ledger rows of the fields that differ from what it
\* fetched
InsertEdits(r) ==
    /\ ret.run[r].pc = "fetched"
    /\ article_edits' =
          logEdits(article_edits,
                   changedFields(arg[r], ret.run[r].current, arg[r].changes.e, 1),
                   arg[r].logError).ledger
    /\ ret' = [ret EXCEPT !.run[r].pc = "logged"]
    /\ UNCHANGED <<first_party_articles, article_markets, weather, nextId, now, response,
                   arg>>

\* request r updates the row as stored now, and answers
UpdateRow(r) ==
    /\ ret.run[r].pc = "logged"
    /\ LET out == applyUpdate(first_party_articles, article_markets, arg[r],
                              CHOOSE x \in first_party_articles : x.id = arg[r].id,
                              logEdits(article_edits, <<>>, FALSE))
       IN  /\ first_party_articles' = out.rows
           /\ response' = out.response
    /\ ret' = [ret EXCEPT !.run[r].pc = "done"]
    /\ now' = now + 1
    /\ UNCHANGED <<article_edits, article_markets, weather, nextId, arg>>

NextRace == \E r \in Runs : FetchCurrent(r) \/ InsertEdits(r) \/ UpdateRow(r)

SpecRace == InitRace /\ [][NextRace]_vars

\* both requests have been answered
EditsDone == ret.pc = "edits" /\ \A r \in Runs : ret.run[r].pc = "done"

\* the positions in the ledger of the rows about field f of article 1
ChainOf(f) == RowsAbout(article_edits, 1, f)

\* C31: however two field updates of one article interleave, once both are
\* answered the ledger rows of a field form a chain: each row's old_value is
\* the new_value of the row about the field before it, and the last row's
\* new_value is the field's stored value (as the ledger writes values).
C31_LedgerChain ==
    EditsDone =>
        \A f \in {"priority", "market", "bullet"} :
            \A k \in ChainOf(f) :
                /\ \A j \in ChainOf(f) :
                      (j < k /\ \A m \in ChainOf(f) : ~(j < m /\ m < k))
                          => article_edits[k].old_value = article_edits[j].new_value
                /\ (\A m \in ChainOf(f) : m <= k)
                      => article_edits[k].new_value = textOrNull(StoredRow(1)[f])

-----------------------------------------------------------------------------
(* Ledger rows of the additional markets *)

\* the request just served was an add or a remove that passed the field check
MarketActionServed ==
    /\ response'.op = "update"
    /\ ~response'.request.invalidBody
    /\ response'.request.action \in {"add", "remove"}
    /\ response'.status # 400

\* C32: an add or a remove appends a ledger row only when article_markets
\* changed (adding a market that is present, or removing one that is absent,
\* appends none), and a failed ledger write does not fail the add or remove.
C32_MarketLedgerOnlyOnChange ==
    [][MarketActionServed =>
          /\ Appended # <<>> => article_markets' # article_markets
          /\ (response'.request.logError /\ ~response'.request.writeError)
                => response'.status = 200]_vars

-----------------------------------------------------------------------------
(* Specification of the two getMarket functions and the dashboard's market
   filter, as functions of the same location and geocoder answer *)

\* MARKETS of the dashboard (lib/markets)
MARKETS_dashboard ==
    [i \in 1..(Len(MARKETS_process) + 1) |->
        IF i <= Len(MARKETS_process) THEN MARKETS_process[i].name ELSE AtLarge]

\* the filter of useArticles: article a is listed under the market selected
marketFilter(a, market) ==
    \/ a.market = Str(market)
    \/ \E i \in DOMAIN a.additional_markets : a.additional_markets[i] = Str(market)
    \/ market = AtLarge /\ ~truthy(a.market)

InitMarkets ==
    /\ StoreIdle
    /\ arg \in [location : LocationInputs, geo : GeoOutcomes]
    /\ ret = [pc |-> "input"]

ResolveBoth ==
    /\ ret.pc = "input"
    /\ ret' = [pc |-> "done", fn |-> "markets",
               ingest |-> getMarket(arg.location, arg.geo),
               reprocess |-> getMarket_process(arg.location, arg.geo)]
    /\ UNCHANGED <<arg, storeVars>>

NextMarkets == ResolveBoth

SpecMarkets == InitMarkets /\ [][NextMarkets]_vars

\* both functions were applied to a location string
BothResolved == Analyzed("markets") /\ arg.location.t = "string"

\* C33: for every location string and every geocoder answer the ingest path
\* and the reprocess path compute the same market.
C33_SameMarketBothPaths ==
    BothResolved => ret.ingest.market = ret.reprocess.market

\* an article with primary market m and no additional market
Stored(m) == [market |-> Str(m), additional_markets |-> <<>>]

\* C39: every market the ingest or the reprocess path can store is in the
\* dashboard's market list, and an article stored with it is listed under
\* that market's filter and under no other.
C39_StoredMarketSelectable ==
    BothResolved =>
        \A m \in {ret.ingest.market, ret.reprocess.market} :
            /\ \E i \in DOMAIN MARKETS_dashboard : MARKETS_dashboard[i] = m
            /\ \A i \in DOMAIN MARKETS_dashboard :
                  marketFilter(Stored(m), MARKETS_dashboard[i]) <=> MARKETS_dashboard[i] = m

-----------------------------------------------------------------------------
(* The priority floor of the articles of the webhook *)

\* the request just served was a delivery or a reprocess, with the analysis
\* service configured
AutomaticServed ==
    \/ response'.op = "ingest" /\ response'.asked.configured
    \/ response'.op = "process" /\ response'.request.service # Unconfigured

\* C34: with the analysis service configured, every row of
\* first_party_articles that a delivery or a reprocess writes has a priority of
\* at least 4.
C34_PriorityFloorKept ==
    [][AutomaticServed =>
          \A r \in first_party_articles' \ first_party_articles :
              geInt(r.priority, 4)]_vars

-----------------------------------------------------------------------------
(* Additional markets and the articles they belong to *)

\* C35: no row of article_markets names the primary market of its article.
C35_AdditionalNeverPrimary ==
    \A k \in DOMAIN article_markets :
        \A r \in tableRows(article_markets[k].table_name, first_party_articles) :
            r.id = article_markets[k].article_id => r.market # article_markets[k].market

\* C36: every row of article_markets names one of the two article tables and,
\* for first_party_articles, the id of a row of that table.
C36_SideRowsHaveArticle ==
    \A k \in DOMAIN article_markets :
        /\ article_markets[k].table_name \in {"articles", FIRST_PARTY}
        /\ article_markets[k].table_name = FIRST_PARTY
              => \E r \in first_party_articles : r.id = article_markets[k].article_id

-----------------------------------------------------------------------------
(* Requests about an article that is not stored *)

\* update-article served a field update, or process-article a reprocess, that
\* passed the checks of its body and names an id no row of its table has
UnknownArticleServed ==
    /\ response'.op \in {"update", "process"}
    /\ ~response'.request.invalidBody
    /\ response'.request.table \in {"articles", FIRST_PARTY}
    /\ response'.request.id # 0
    /\ response'.op = "update"
          => /\ response'.request.action = ""
             /\ response'.request.changes # Undefined
             /\ response'.request.changes.e # <<>>
    /\ \A r \in tableRows(response'.request.table, first_party_articles) :
           r.id # response'.request.id

\* C37: a field update or a reprocess of an id that no article has is answered
\* 404 and changes nothing: no ledger row is appended, no article row is
\* created or modified, and neither the analysis service nor the geocoder is
\* called.
C37_UnknownArticleNotFound ==
    [][UnknownArticleServed =>
          /\ response'.status = 404
          /\ response'.body = [error |-> "Article not found"]
          /\ response'.calls = [NoCalls EXCEPT !.db = {response'.request.table}]
          /\ UNCHANGED Tables]_vars

\* a field update of article 9, which is not stored, was answered 404 after an
\* earlier request had stored a ledger row
C37_Witness ==
    /\ response.op = "update"
    /\ response.request.action = ""
    /\ response.request.id = 9
    /\ response.request.table = FIRST_PARTY
    /\ response.status = 404
    /\ \A r \in first_party_articles : r.id # 9
    /\ Len(article_edits) = 1

-----------------------------------------------------------------------------
(* Posts with an excluded tag *)

\* the texts that s becomes when at most one c is left out of it
withoutOne(s, c) ==
    {s} \cup {SubSeq(s, 1, i - 1) \o SubSeq(s, i + 1, Len(s)) : i \in {j \in DOMAIN s : s[j] = c}}

\* the post carries a tag whose slug, in any case, or whose name, in any case
\* and without a '#', is brief, obit or jail
CarriesExcludedTag(post) ==
    /\ get(post, "tags").t = "array"
    /\ \E i \in DOMAIN get(post, "tags").a :
          LET tag == get(post, "tags").a[i] IN
          \/ /\ get(tag, "slug").t = "string"
             /\ toLowerCase(get(tag, "slug").s) \in EXCLUDED_TAGS
          \/ /\ get(tag, "name").t = "string"
             /\ withoutOne(toLowerCase(get(tag, "name").s), "#") \cap EXCLUDED_TAGS # {}

\* the webhook served a POST that passed the secret check and whose body
\* parsed, and the post delivered carries an excluded tag
ExcludedPostServed ==
    /\ PostServed
    /\ ~SecretMismatch
    /\ response'.asked.body # Invalid
    /\ CarriesExcludedTag(postOf(response'.asked.body))

\* C38: a delivery whose post carries a tag whose slug or name, ignoring case
\* and a '#' in the name, is brief, obit or jail is answered 200 with status
\* skipped, and the handler calls neither the analysis service nor the geocoder
\* and writes nothing to the store.
C38_ExcludedTagSkipped ==
    [][ExcludedPostServed =>
          /\ response'.status = 200
          /\ response'.body = [status |-> "skipped"]
          /\ NothingDone]_vars

\* a post tagged Obit was skipped, with the analysis service configured, after
\* an earlier delivery had stored a row
C38_Witness ==
    /\ response.op = "ingest"
    /\ response.asked.body = Envelope(ObitPost)
    /\ response.asked.configured
    /\ response.body = [status |-> "skipped"]
    /\ response.calls = NoCalls
    /\ now = 2
    /\ first_party_articles # {}

====
